---- MODULE Spec2Model ----
(***************************************************************************)
(* State-machine model of the GnuCash SQL backend core                     *)
(* (src/src/backend/sql/gnc-backend-sql.cpp): the object backend registry, *)
(* the top-level orchestration (load, sync, per-instance commit) and the   *)
(* schema version manager.                                                 *)
(*                                                                         *)
(* Every top-level entry point is one action.  The calls an entry point    *)
(* makes to its collaborators (the connection, the registered callbacks,   *)
(* the per-type save routines) are recorded, in call order, in `trace`;    *)
(* `last_op` holds the entry point, its arguments and the part of the      *)
(* state it saw when it was called.                                        *)
(***************************************************************************)
EXTENDS Integers, Sequences, FiniteSets, TLC

(* ------------------------------ bounds --------------------------------- *)
MaxRegistry == 2
MaxOrderLen == 2
MaxVersion == 2

\* Descriptors in a table.
MaxCols == 2
MaxRows == 2

(* -------------------------- program constants -------------------------- *)
GNC_SQL_BACKEND_VERSION == 1
StaleVersion == GNC_SQL_BACKEND_VERSION + 1
TABLE_VERSION == 1
\* The two release numbers reset_version_info records; their definitions lie
\* outside the sources at hand, so they stand here as two distinct positive
\* numbers above every table version the model uses.
GNUCASH_RESAVE_VERSION == 19920
gnc_prefs_get_long_version == 2061700

fixed_load_order == <<"Book", "Commodity", "Account", "Lot">>

VERSION_TABLE_NAME == "versions"
COMMODITIES_TABLE == "commodities"

Callbacks ==
    {"commit", "initial_load", "create_tables", "compile_query",
     "run_query", "free_query", "write"}

\* The callbacks gnc_sql_init_commodity_handler fills in; the others are NULL.
CommodityCallbacks == {"commit", "initial_load", "create_tables"}

ERR_BACKEND_NO_ERR == "ERR_BACKEND_NO_ERR"
ERR_BACKEND_READONLY == "ERR_BACKEND_READONLY"
ERR_BACKEND_SERVER_ERR == "ERR_BACKEND_SERVER_ERR"

(* ------------------------------- state --------------------------------- *)
VARIABLES
    backend_registry,   \* static OBEVec backend_registry
    other_load_order,   \* static StrVec other_load_order
    be_book,            \* be->book != NULL
    loading,            \* be->loading
    in_query,           \* be->in_query
    is_pristine_db,     \* be->is_pristine_db
    last_err,           \* the backend-wide error slot (be->be)
    versions,           \* be->versions: table name -> version
    db_versions,        \* rows of the persisted version table
    book_dirty,         \* the book's "session not saved" flag
    book_readonly,      \* qof_book_is_readonly (be->book)
    inst,               \* the engine instances: dirty and destroying flags
    trace,              \* collaborator calls of the last entry point, in order
    last_op,            \* the last entry point, its arguments, what it saw
    aborted,            \* the process died (failed g_assert, crash)
    version_table_exists, \* gnc_sql_connection_does_table_exist ("versions")
    g_columnTypeHash,   \* static GHashTable* g_columnTypeHash: tag -> handler
    col_table,          \* the descriptor table (EntryVec) of the object type
    pObj,               \* the engine object it describes: property -> value
    db_tables,          \* data tables of the database: table name -> rows
    event_suspend,      \* depth of qof_event_suspend not yet resumed
    pc,                 \* "idle", or the bundle callback that is running
    query_info,         \* the gnc_sql_query_info wrapper of the caller's query
    post_load_commodities \* static GList* post_load_commodities

vars ==
    <<backend_registry, other_load_order, be_book, loading, in_query,
      is_pristine_db, last_err, versions, db_versions, book_dirty,
      book_readonly, inst, trace, last_op, aborted, version_table_exists,
      g_columnTypeHash, col_table, pObj, db_tables, event_suspend, pc,
      query_info, post_load_commodities>>

(* ------------------------------ helpers -------------------------------- *)
\* One collaborator call: what was called, on which registry index or with
\* which version number (n), on which table (tbl), and what it returned.
Ev(e, n, t, ok) == [ev |-> e, n |-> n, tbl |-> t, ok |-> ok]

EmptyMap == [x \in {} |-> 0]

\* g_columnTypeHash before the first registration (a NULL pointer).  The
\* table is created by the first registration, which inserts at once, so an
\* existing table is never empty and the empty map stands for NULL.
NoHash == EmptyMap

MapPut(m, k, v) == [x \in (DOMAIN m) \cup {k} |-> IF x = k THEN v ELSE m[x]]

InSeq(x, s) == \E i \in 1..Len(s) : s[i] = x

Events(e) == {i \in 1..Len(trace) : trace[i].ev = e}

\* A statement handle: its verb, the pairs of its column list and the pairs
\* of its WHERE clause.
Stmt(kind, values, where) == [kind |-> kind, values |-> values, where |-> where]

NullStmt == Stmt("NULL", <<>>, <<>>)

\* Pointers are numbers; NULL is 0.
NULL == 0

\* No query has been compiled: there is no wrapper.
NoQuery ==
    [state |-> "none", searchObj |-> "", pCompiledQuery |-> NULL, frees |-> 0]

NoOp ==
    [name |-> "", inst |-> "", tbl |-> "", ver |-> 0, ret |-> 0,
     pre_dirty |-> FALSE, pre_destroying |-> FALSE, pre_book_dirty |-> FALSE,
     pre_readonly |-> FALSE, pre_loading |-> FALSE, pre_pristine |-> FALSE,
     pre_has |-> FALSE, pre_ver |-> 0, pre_err |-> ERR_BACKEND_NO_ERR,
     op |-> "", stmt_ok |-> TRUE, stmt |-> NullStmt, row |-> EmptyMap,
     sets |-> <<>>, loaded |-> EmptyMap, tag |-> "", handler |-> "",
     pre_versions |-> EmptyMap, pre_db_versions |-> EmptyMap,
     pre_tables |-> EmptyMap,
     is_infant |-> FALSE, force_insert |-> FALSE,
     passed |-> NULL, pre_query |-> NoQuery, pre_in_query |-> FALSE,
     pre_hash |-> EmptyMap]

\* The engine objects handed to gnc_sql_commit_edit, with their e_type.
InstIds == {"acct", "pricedb"}

e_type(i) == IF i = "pricedb" THEN "PriceDB" ELSE "Account"

qof_backend_set_error(err, e) == IF err = ERR_BACKEND_NO_ERR THEN e ELSE err

qof_backend_check_error(err) == err # ERR_BACKEND_NO_ERR

(* ------------------------- schema version manager ---------------------- *)
\* A state threaded through the version routines.
BeState(p, v, d, e, t, x) ==
    [is_pristine_db |-> p, versions |-> v, db_versions |-> d, last_err |-> e,
     trace |-> t, version_table_exists |-> x]

CurBe ==
    BeState(is_pristine_db, versions, db_versions, last_err, <<>>,
            version_table_exists)

gnc_sql_get_table_version_nopristine(pristine, vers, table_name) ==
    IF table_name \in DOMAIN vers THEN vers[table_name] ELSE 0

gnc_sql_get_table_version(pristine, vers, table_name) ==
    IF pristine
    THEN 0
    ELSE IF table_name \in DOMAIN vers THEN vers[table_name] ELSE 0

\* The connection executing a statement against the persisted version
\* table.  conn_ok is the connection's own outcome; an INSERT of a table
\* name that already has a row fails on the primary key.
InsertStatus(db, table_name, conn_ok) == conn_ok /\ table_name \notin DOMAIN db

ExecInsert(db, table_name, version, conn_ok) ==
    IF InsertStatus(db, table_name, conn_ok)
    THEN MapPut(db, table_name, version)
    ELSE db

ExecUpdate(db, table_name, version, conn_ok) ==
    IF conn_ok /\ table_name \in DOMAIN db
    THEN [db EXCEPT ![table_name] = version]
    ELSE db

\* conn_ok is what the connection makes of the statement when the version
\* table is there; without the table every statement on it fails.
gnc_sql_set_table_version(s, table_name, version, conn_ok) ==
    LET cur_version ==
            gnc_sql_get_table_version(s.is_pristine_db, s.versions, table_name)
        exec_ok == conn_ok /\ s.version_table_exists
        status ==
            IF cur_version = 0
            THEN InsertStatus(s.db_versions, table_name, exec_ok)
            ELSE exec_ok
    IN  IF cur_version # version
        THEN [s EXCEPT
                !.db_versions =
                    IF cur_version = 0
                    THEN ExecInsert(@, table_name, version, exec_ok)
                    ELSE ExecUpdate(@, table_name, version, exec_ok),
                !.last_err =
                    IF status THEN @
                    ELSE qof_backend_set_error(@, ERR_BACKEND_SERVER_ERR),
                !.versions = MapPut(@, table_name, version),
                !.trace =
                    Append(@, Ev(IF cur_version = 0 THEN "INSERT" ELSE "UPDATE",
                                 version, table_name, status))]
        ELSE [s EXCEPT !.versions = MapPut(@, table_name, version)]

\* do_create_table (be, VERSION_TABLE_NAME, version_table): a successful
\* create leaves a fresh, empty version table.
do_create_version_table(s, conn_ok) ==
    [s EXCEPT
        !.db_versions = IF conn_ok THEN EmptyMap ELSE @,
        !.version_table_exists = @ \/ conn_ok,
        !.trace = Append(@, Ev("create_table", 0, VERSION_TABLE_NAME, conn_ok))]

reset_version_info(s, c) ==
    LET s1 == do_create_version_table(s, c.create)
        s2 == [s1 EXCEPT !.versions = EmptyMap]
        s3 == gnc_sql_set_table_version(s2, "Gnucash",
                                        gnc_prefs_get_long_version, c.ins1)
    IN  gnc_sql_set_table_version(s3, "Gnucash-Resave",
                                  GNUCASH_RESAVE_VERSION, c.ins2)

\* c.select: the SELECT over the version table gave a result.
gnc_sql_init_version_info(s, c) ==
    LET s1 == [s EXCEPT !.versions = EmptyMap]
    IN  IF s.version_table_exists
        THEN IF c.select
             THEN [s1 EXCEPT
                     !.versions = s.db_versions,
                     !.trace = Append(@, Ev("SELECT", 0, VERSION_TABLE_NAME,
                                            TRUE))]
             ELSE [s1 EXCEPT
                     !.last_err =
                         qof_backend_set_error(@, ERR_BACKEND_SERVER_ERR),
                     !.trace = Append(@, Ev("SELECT", 0, VERSION_TABLE_NAME,
                                            FALSE))]
        ELSE LET s2 == do_create_version_table(s1, c.create)
                 s3 == gnc_sql_set_table_version(s2, "Gnucash",
                           gnc_prefs_get_long_version, c.ins1)
             IN  gnc_sql_set_table_version(s3, "Gnucash-Resave",
                                           GNUCASH_RESAVE_VERSION, c.ins2)

\* g_strdup_printf ("%s_new", table_name)
TempName(table_name) ==
    IF table_name = "commodities" THEN "commodities_new" ELSE "other_new"

\* do_create_table for a data table: the connection alone decides.
do_create_table(s, table_name, create_ok) ==
    [s EXCEPT !.trace = Append(@, Ev("create_table", 0, table_name, create_ok))]

\* gnc_sql_create_table recording the version whatever do_create_table
\* returned.
create_table_version_always(s, table_name, table_version, create_ok, conn_ok) ==
    LET s1 == do_create_table(s, table_name, create_ok)
    IN  [be |-> gnc_sql_set_table_version(s1, table_name, table_version,
                                          conn_ok),
         ok |-> TRUE]

\* The result is the record [be, ok]: the backend afterwards and the value
\* returned.  gnc_sql_set_table_version returns TRUE on every path.
gnc_sql_create_table(s, table_name, table_version, create_ok, conn_ok) ==
    LET s1 == do_create_table(s, table_name, create_ok)
    IN  IF create_ok
        THEN [be |-> gnc_sql_set_table_version(s1, table_name, table_version,
                                               conn_ok),
              ok |-> TRUE]
        ELSE [be |-> s1, ok |-> FALSE]

\* A temporary table is created like a data table and gets no version.
gnc_sql_create_temp_table(s, table_name, create_ok) ==
    [be |-> do_create_table(s, table_name, create_ok), ok |-> create_ok]

(* ------------------------ object backend registry ---------------------- *)
OBEEntry(t, v, cbs) == [type_name |-> t, version |-> v, cbs |-> cbs]

\* std::find_if over the registry: the first index whose type name is
\* `type`, 0 for backend_registry.end().
RECURSIVE find_if(_, _, _)
find_if(reg, type, i) ==
    IF i > Len(reg) THEN 0
    ELSE IF reg[i].type_name = type THEN i
    ELSE find_if(reg, type, i + 1)

create_tables(entry, idx) ==
    IF entry.version # GNC_SQL_BACKEND_VERSION THEN <<>>
    ELSE IF "create_tables" \in entry.cbs
         THEN <<Ev("create_tables", idx, "", TRUE)>>
         ELSE <<>>

initial_load(entry, idx, other) ==
    IF entry.version # GNC_SQL_BACKEND_VERSION THEN <<>>
    ELSE IF InSeq(entry.type_name, fixed_load_order) THEN <<>>
    ELSE IF InSeq(entry.type_name, other) THEN <<>>
    ELSE IF "initial_load" \in entry.cbs
         THEN <<Ev("initial_load", idx, "", TRUE)>>
         ELSE <<>>

\* write() drops the callback's result: is_ok of the caller is not touched.
write(entry, idx, wfail) ==
    IF entry.version # GNC_SQL_BACKEND_VERSION THEN <<>>
    ELSE IF "write" \in entry.cbs
         THEN <<Ev("write", idx, "", idx \notin wfail)>>
         ELSE <<>>

\* commit() without the test of the type name.
commit_any_type(entry, idx, d, cb_ok) ==
    IF entry.version # GNC_SQL_BACKEND_VERSION THEN d
    ELSE IF d.is_known THEN d
    ELSE IF "commit" \in entry.cbs
         THEN [d EXCEPT !.is_ok = cb_ok, !.is_known = TRUE,
                        !.trace = Append(@, Ev("commit_cb", idx, "", cb_ok))]
         ELSE d

\* commit() dropping what the callback returned.
commit_drop_result(entry, idx, d, cb_ok) ==
    IF entry.version # GNC_SQL_BACKEND_VERSION THEN d
    ELSE IF entry.type_name # d.e_type THEN d
    ELSE IF d.is_known THEN d
    ELSE IF "commit" \in entry.cbs
         THEN [d EXCEPT !.is_known = TRUE,
                        !.trace = Append(@, Ev("commit_cb", idx, "", cb_ok))]
         ELSE d

\* d is the sql_backend callback structure, with the calls made so far.
commit(entry, idx, d, cb_ok) ==
    IF entry.version # GNC_SQL_BACKEND_VERSION THEN d
    ELSE IF entry.type_name # d.e_type THEN d
    ELSE IF d.is_known THEN d
    ELSE IF "commit" \in entry.cbs
         THEN [d EXCEPT !.is_ok = cb_ok, !.is_known = TRUE,
                        !.trace = Append(@, Ev("commit_cb", idx, "", cb_ok))]
         ELSE d

\* for (auto entry : backend_registry) f(entry, be)
RECURSIVE for_each_create_tables(_, _)
for_each_create_tables(reg, i) ==
    IF i > Len(reg) THEN <<>>
    ELSE create_tables(reg[i], i) \o for_each_create_tables(reg, i + 1)

RECURSIVE for_each_initial_load(_, _, _)
for_each_initial_load(reg, i, other) ==
    IF i > Len(reg) THEN <<>>
    ELSE initial_load(reg[i], i, other) \o for_each_initial_load(reg, i + 1, other)

RECURSIVE for_each_write(_, _, _)
for_each_write(reg, i, wfail) ==
    IF i > Len(reg) THEN <<>>
    ELSE write(reg[i], i, wfail) \o for_each_write(reg, i + 1, wfail)

RECURSIVE for_each_commit(_, _, _, _)
for_each_commit(reg, i, d, cb_ok) ==
    IF i > Len(reg) THEN d
    ELSE for_each_commit(reg, i + 1, commit(reg[i], i, d, cb_ok), cb_ok)

(* ------------------------------- queries ------------------------------- *)
\* The wrapper g_malloc returns in gnc_sql_compile_query, and the compiled
\* query the compile_query callback of the bundle at idx returns: pointers
\* that differ from each other and from NULL.
WRAPPER == 1

HandleOf(idx) == 10 + idx

\* The sql_backend callback structure of a query call: is_ok, the wrapper's
\* searchObj and pCompiledQuery fields (info), be_data's own pCompiledQuery,
\* the handle the callback was given (passed) and the calls made so far.
QueryData(searchObj, info, pCompiledQuery) ==
    [is_ok |-> FALSE, searchObj |-> searchObj, info |-> info,
     pCompiledQuery |-> pCompiledQuery, passed |-> NULL, trace |-> <<>>]

compile_query(entry, idx, d) ==
    IF entry.version # GNC_SQL_BACKEND_VERSION THEN d
    ELSE IF entry.type_name # d.searchObj THEN d
    ELSE IF d.is_ok THEN d
    ELSE IF "compile_query" \in entry.cbs
         THEN [d EXCEPT !.info = HandleOf(idx), !.is_ok = TRUE,
                        !.trace = Append(@, Ev("compile_query", idx, "", TRUE))]
         ELSE d

free_query(entry, idx, d) ==
    IF entry.version # GNC_SQL_BACKEND_VERSION THEN d
    ELSE IF d.is_ok THEN d
    ELSE IF entry.type_name # d.searchObj THEN d
    ELSE IF "free_query" \in entry.cbs
         THEN [d EXCEPT !.passed = d.pCompiledQuery, !.is_ok = TRUE,
                        !.trace = Append(@, Ev("free_query", idx, "", TRUE))]
         ELSE d

run_query(entry, idx, d) ==
    IF entry.version # GNC_SQL_BACKEND_VERSION THEN d
    ELSE IF d.is_ok THEN d
    ELSE IF entry.type_name # d.searchObj THEN d
    ELSE IF "run_query" \in entry.cbs
         THEN [d EXCEPT !.passed = d.pCompiledQuery, !.is_ok = TRUE,
                        !.trace = Append(@, Ev("run_query", idx, "", TRUE))]
         ELSE d

RECURSIVE for_each_compile_query(_, _, _)
for_each_compile_query(reg, i, d) ==
    IF i > Len(reg) THEN d
    ELSE for_each_compile_query(reg, i + 1, compile_query(reg[i], i, d))

RECURSIVE for_each_free_query(_, _, _)
for_each_free_query(reg, i, d) ==
    IF i > Len(reg) THEN d
    ELSE for_each_free_query(reg, i + 1, free_query(reg[i], i, d))

RECURSIVE for_each_run_query(_, _, _)
for_each_run_query(reg, i, d) ==
    IF i > Len(reg) THEN d
    ELSE for_each_run_query(reg, i + 1, run_query(reg[i], i, d))

\* gnc_sql_compile_query: the wrapper it returns.
gnc_sql_compile_query(reg, searchObj) ==
    LET d == for_each_compile_query(reg, 1, QueryData(searchObj, NULL, NULL))
    IN  [q |-> [state |-> "compiled", searchObj |-> searchObj,
                pCompiledQuery |-> d.info, frees |-> 0],
         d |-> d]

\* gnc_sql_free_query: be_data.pCompiledQuery is set to pQuery, the wrapper;
\* when a callback ran the function returns at once, otherwise it frees the
\* compiled query, if any, and the wrapper.
gnc_sql_free_query(reg, q) ==
    LET d == for_each_free_query(reg, 1,
                 QueryData(q.searchObj, q.pCompiledQuery, WRAPPER))
    IN  IF d.is_ok
        THEN [q |-> [q EXCEPT !.state = "freed"], d |-> d]
        ELSE [q |-> [q EXCEPT !.state = "freed", !.frees = @ + 1],
              d |-> [d EXCEPT !.trace =
                        @ \o (IF q.pCompiledQuery # NULL
                              THEN <<Ev("g_free", q.pCompiledQuery, "", TRUE)>>
                              ELSE <<>>)
                          \o <<Ev("g_free", WRAPPER, "", TRUE)>>]]

\* gnc_sql_run_query entering whatever in_query says.
run_query_enter_unguarded(reg, q, inq) ==
    [entered |-> TRUE,
     d |-> for_each_run_query(reg, 1,
               QueryData(q.searchObj, q.pCompiledQuery, q.pCompiledQuery))]

\* gnc_sql_run_query up to the callback: g_return_if_fail (!be->in_query),
\* then the loop over the registry with be_data.pCompiledQuery taken from
\* the wrapper.
run_query_enter(reg, q, inq) ==
    IF inq
    THEN [entered |-> FALSE,
          d |-> QueryData(q.searchObj, q.pCompiledQuery, q.pCompiledQuery)]
    ELSE [entered |-> TRUE,
          d |-> for_each_run_query(reg, 1,
                    QueryData(q.searchObj, q.pCompiledQuery,
                              q.pCompiledQuery))]

\* The indexes whose write callback write() invokes.
Writers(reg) ==
    {i \in 1..Len(reg) :
        reg[i].version = GNC_SQL_BACKEND_VERSION /\ "write" \in reg[i].cbs}

(* -------------------------------- load --------------------------------- *)
\* The two ordered loops of gnc_sql_load.  A listed type with no registry
\* entry makes find_if return end(), which the code dereferences before it
\* compares it with end(): undefined behaviour, which either reads a stale
\* pointer it then does not use, or crashes.  r is [trace, crashed].
RECURSIVE load_in_order(_, _, _, _, _)
load_in_order(order, i, reg, r, crash) ==
    IF i > Len(order) \/ r.crashed THEN r
    ELSE LET entry == find_if(reg, order[i], 1)
         IN  IF entry = 0
             THEN IF crash
                  THEN [trace |-> Append(r.trace, Ev("crash", 0, "", FALSE)),
                        crashed |-> TRUE]
                  ELSE load_in_order(order, i + 1, reg, r, crash)
             ELSE IF "initial_load" \in reg[entry].cbs
                  THEN load_in_order(order, i + 1, reg,
                          [r EXCEPT !.trace =
                              Append(@, Ev("initial_load", entry, "", TRUE))],
                          crash)
                  ELSE load_in_order(order, i + 1, reg, r, crash)

\* The calls of a load with those of load_all_commodities put in: after
\* the initial_load of a Commodity bundle, one push for every dirty row.
RECURSIVE load_all_commodities(_, _, _, _)
load_all_commodities(tr, reg, rows, k) ==
    IF k > Len(tr) THEN <<>>
    ELSE <<tr[k]>>
         \o (IF tr[k].ev = "initial_load" /\ reg[tr[k].n].type_name = "Commodity"
             THEN [j \in 1..Len(rows) |->
                      Ev("gnc_sql_push_commodity_for_postload_processing",
                         rows[j], "", TRUE)]
             ELSE <<>>)
         \o load_all_commodities(tr, reg, rows, k + 1)

\* gnc_sql_push_commodity_for_postload_processing: g_list_prepend for every
\* push among the calls, in order.
RECURSIVE PushedBy(_, _, _)
PushedBy(tr, k, list) ==
    IF k > Len(tr) THEN list
    ELSE PushedBy(tr, k + 1,
             IF tr[k].ev = "gnc_sql_push_commodity_for_postload_processing"
             THEN <<tr[k].n>> \o list
             ELSE list)

\* g_list_free_full (post_load_commodities, commit_commodity): one call of
\* gnc_sql_commit_commodity per element, in list order; the event tells
\* whether be->loading was set at the call.
g_list_free_full(list, loading_now) ==
    [k \in 1..Len(list) |->
        Ev("commit_commodity", list[k],
           IF loading_now THEN "loading" ELSE "", TRUE)]

\* The end of gnc_sql_load with the commodities committed before the loading
\* flag is cleared.
load_finish_while_loading(list) ==
    [loading |-> FALSE,
     trace |-> g_list_free_full(list, TRUE),
     post_load_commodities |-> <<>>]

\* The end of gnc_sql_load: be->loading = FALSE, then the deferred
\* commodities are committed and the list is reset.
load_finish(list) ==
    [loading |-> FALSE,
     trace |-> g_list_free_full(list, FALSE),
     post_load_commodities |-> <<>>]

(* ------------------------------ actions -------------------------------- *)
\* The backend after construction, before any object type is described.
InitBackend ==
    /\ backend_registry = <<>>
    /\ other_load_order = <<>>
    /\ be_book = FALSE
    /\ loading = FALSE
    /\ in_query = FALSE
    /\ is_pristine_db = FALSE
    /\ last_err = ERR_BACKEND_NO_ERR
    /\ versions = EmptyMap
    /\ db_versions = EmptyMap
    /\ book_dirty = FALSE
    /\ book_readonly = FALSE
    /\ inst = [i \in InstIds |-> [dirty |-> FALSE, destroying |-> FALSE]]
    /\ trace = <<>>
    /\ last_op = NoOp
    /\ aborted = FALSE
    /\ version_table_exists = FALSE
    /\ g_columnTypeHash = NoHash
    /\ event_suspend = 0
    /\ pc = "idle"
    /\ query_info = NoQuery
    /\ post_load_commodities = <<>>

Init ==
    /\ InitBackend
    /\ col_table = <<>>
    /\ pObj = EmptyMap
    /\ db_tables = EmptyMap

gnc_sql_register_backend(entry) ==
    /\ ~aborted
    /\ Len(backend_registry) < MaxRegistry
    /\ backend_registry' = Append(backend_registry, entry)
    /\ trace' = <<>>
    /\ last_op' = [NoOp EXCEPT !.name = "gnc_sql_register_backend"]
    /\ UNCHANGED <<other_load_order, be_book, loading, in_query,
                   is_pristine_db, last_err, versions, db_versions,
                   book_dirty, book_readonly, inst, aborted>>
    /\ UNCHANGED <<version_table_exists, g_columnTypeHash, col_table, pObj>>
    /\ UNCHANGED <<db_tables, event_suspend, pc, query_info,
                   post_load_commodities>>

gnc_sql_set_load_order(load_order) ==
    /\ ~aborted
    /\ other_load_order' = load_order
    /\ trace' = <<>>
    /\ last_op' = [NoOp EXCEPT !.name = "gnc_sql_set_load_order"]
    /\ UNCHANGED <<backend_registry, be_book, loading, in_query,
                   is_pristine_db, last_err, versions, db_versions,
                   book_dirty, book_readonly, inst, aborted>>
    /\ UNCHANGED <<version_table_exists, g_columnTypeHash, col_table, pObj>>
    /\ UNCHANGED <<db_tables, event_suspend, pc, query_info,
                   post_load_commodities>>

\* The engine edits an instance: it and its book become dirty.
engine_edit(i) ==
    /\ ~aborted
    /\ be_book
    /\ inst' = [inst EXCEPT ![i].dirty = TRUE]
    /\ book_dirty' = TRUE
    /\ trace' = <<>>
    /\ last_op' = [NoOp EXCEPT !.name = "engine_edit", !.inst = i]
    /\ UNCHANGED <<backend_registry, other_load_order, be_book, loading,
                   in_query, is_pristine_db, last_err, versions, db_versions,
                   book_readonly, aborted>>
    /\ UNCHANGED <<version_table_exists, g_columnTypeHash, col_table, pObj>>
    /\ UNCHANGED <<db_tables, event_suspend, pc, query_info,
                   post_load_commodities>>

\* The engine marks an instance as being destroyed.
engine_destroy(i) ==
    /\ ~aborted
    /\ be_book
    /\ i # "pricedb"
    /\ inst' = [inst EXCEPT ![i].destroying = TRUE]
    /\ trace' = <<>>
    /\ last_op' = [NoOp EXCEPT !.name = "engine_destroy", !.inst = i]
    /\ UNCHANGED <<backend_registry, other_load_order, be_book, loading,
                   in_query, is_pristine_db, last_err, versions, db_versions,
                   book_dirty, book_readonly, aborted>>
    /\ UNCHANGED <<version_table_exists, g_columnTypeHash, col_table, pObj>>
    /\ UNCHANGED <<db_tables, event_suspend, pc, query_info,
                   post_load_commodities>>

\* The book is opened read-only, or made writable again.
book_set_readonly(ro) ==
    /\ ~aborted
    /\ be_book
    /\ book_readonly # ro
    /\ book_readonly' = ro
    /\ trace' = <<>>
    /\ last_op' = [NoOp EXCEPT !.name = "book_set_readonly"]
    /\ UNCHANGED <<backend_registry, other_load_order, be_book, loading,
                   in_query, is_pristine_db, last_err, versions, db_versions,
                   book_dirty, inst, aborted>>
    /\ UNCHANGED <<version_table_exists, g_columnTypeHash, col_table, pObj>>
    /\ UNCHANGED <<db_tables, event_suspend, pc, query_info,
                   post_load_commodities>>

\* gnc_sql_load (be, book, loadType).  crash: whether a dereference of
\* backend_registry.end() kills the process.  rows: the commodities that
\* load_all_commodities, the initial_load callback of the Commodity bundle,
\* finds dirty after inserting them into the commodity table, in row order.
gnc_sql_load_rows(loadType, crash, rows) ==
    /\ ~aborted
    /\ last_op' = [NoOp EXCEPT !.name = "gnc_sql_load", !.tbl = loadType]
    /\ IF loadType = "LOAD_TYPE_INITIAL_LOAD" /\ be_book
       THEN \* g_assert (be->book == NULL) fails
            /\ loading' = TRUE
            /\ aborted' = TRUE
            /\ trace' = <<Ev("g_assert", 0, "", FALSE)>>
            /\ UNCHANGED <<be_book, book_dirty, post_load_commodities>>
       ELSE LET r0 == [trace |-> <<>>, crashed |-> FALSE]
                r1 == load_in_order(fixed_load_order, 1, backend_registry,
                                    r0, crash)
                r2 == load_in_order(other_load_order, 1, backend_registry,
                                    r1, crash)
                r3 == IF r2.crashed THEN r2
                      ELSE [r2 EXCEPT !.trace =
                               @ \o for_each_initial_load(backend_registry, 1,
                                                          other_load_order)]
                r4 == IF loadType = "LOAD_TYPE_INITIAL_LOAD" THEN r3
                      ELSE [r0 EXCEPT !.trace =
                               <<Ev("gnc_sql_transaction_load_all_tx", 0, "",
                                    TRUE)>>]
                tr == load_all_commodities(r4.trace, backend_registry, rows, 1)
                list == PushedBy(tr, 1, post_load_commodities)
                fin == load_finish(list)
            IN  /\ trace' = IF r4.crashed THEN tr ELSE tr \o fin.trace
                /\ aborted' = r4.crashed
                /\ loading' = IF r4.crashed THEN TRUE ELSE fin.loading
                /\ post_load_commodities' =
                       IF r4.crashed THEN list ELSE fin.post_load_commodities
                /\ be_book' = (be_book \/ loadType = "LOAD_TYPE_INITIAL_LOAD")
                /\ book_dirty' = IF r4.crashed THEN book_dirty ELSE FALSE
    /\ UNCHANGED <<backend_registry, other_load_order, in_query,
                   is_pristine_db, last_err, versions, db_versions,
                   book_readonly, inst>>
    /\ UNCHANGED <<version_table_exists, g_columnTypeHash, col_table, pObj>>
    /\ UNCHANGED <<db_tables, event_suspend, pc, query_info>>

\* A load in which no commodity is dirty after it was read.
gnc_sql_load(loadType, crash) == gnc_sql_load_rows(loadType, crash, <<>>)

\* The steps with the transactions written before the account trees.
SyncSteps_tx_first ==
    <<"begin", "gnc_sql_save_book", "write_transactions",
      "write_account_tree_root", "write_account_tree_template",
      "write_template_transactions", "write_schedXactions">>

\* The steps of gnc_sql_sync_all that return is_ok, in call order.
SyncSteps ==
    <<"begin", "gnc_sql_save_book", "write_account_tree_root",
      "write_account_tree_template", "write_transactions",
      "write_template_transactions", "write_schedXactions">>

\* The is_ok chain: step k runs if every step before it returned TRUE, and
\* `fail` names the step that returns FALSE ("none": every step succeeds).
RECURSIVE sync_steps(_, _)
sync_steps(k, fail) ==
    IF k > Len(SyncSteps) THEN [is_ok |-> TRUE, trace |-> <<>>]
    ELSE IF fail = SyncSteps[k]
         THEN [is_ok |-> FALSE, trace |-> <<Ev(SyncSteps[k], 0, "", FALSE)>>]
         ELSE LET rest == sync_steps(k + 1, fail)
              IN  [rest EXCEPT !.trace = <<Ev(SyncSteps[k], 0, "", TRUE)>> \o @]

sync_write_all(d, reg, wfail) ==
    IF d.is_ok
    THEN [d EXCEPT !.trace = @ \o for_each_write(reg, 1, wfail)]
    ELSE d

sync_commit(d, fail) ==
    IF d.is_ok
    THEN [is_ok |-> fail # "commit",
          trace |-> Append(d.trace, Ev("commit", 0, "", fail # "commit"))]
    ELSE d

\* gnc_sql_sync_all (be, book).  fail: the step that fails; wfail: the
\* registry indexes whose write callback returns FALSE; c: the outcomes of
\* the version-table statements of reset_version_info.
gnc_sql_sync_all(fail, wfail, c) ==
    /\ ~aborted
    /\ LET s == reset_version_info(CurBe, c)
           ct == for_each_create_tables(backend_registry, 1)
           d1 == sync_steps(1, fail)
           d2 == sync_write_all(d1, backend_registry, wfail)
           d3 == sync_commit(d2, fail)
       IN  /\ versions' = s.versions
           /\ db_versions' = s.db_versions
           /\ be_book' = TRUE
           /\ IF d3.is_ok
              THEN /\ is_pristine_db' = FALSE
                   /\ book_dirty' = FALSE
                   /\ last_err' = s.last_err
                   /\ trace' = s.trace \o ct \o d3.trace
              ELSE /\ is_pristine_db' = TRUE
                   /\ book_dirty' = book_dirty
                   /\ last_err' =
                        IF ~qof_backend_check_error(s.last_err)
                        THEN qof_backend_set_error(s.last_err,
                                                   ERR_BACKEND_SERVER_ERR)
                        ELSE s.last_err
                   /\ trace' = s.trace \o ct \o d3.trace
                                \o <<Ev("rollback", 0, "", TRUE)>>
    /\ last_op' = [NoOp EXCEPT !.name = "gnc_sql_sync_all",
                               !.pre_book_dirty = book_dirty]
    /\ UNCHANGED <<backend_registry, other_load_order, loading, in_query,
                   book_readonly, inst, aborted>>
    /\ version_table_exists' = reset_version_info(CurBe, c).version_table_exists
    /\ UNCHANGED <<g_columnTypeHash, col_table, pObj>>
    /\ UNCHANGED <<db_tables, event_suspend, pc, query_info,
                   post_load_commodities>>

\* gnc_sql_commit_edit (be, inst).  begin_ok, cb_ok, commit_ok: what
\* begin_transaction, the bundle's commit callback and commit_transaction
\* return when they are called.
gnc_sql_commit_edit(i, begin_ok, cb_ok, commit_ok) ==
    /\ ~aborted
    /\ be_book
    /\ last_op' = [NoOp EXCEPT !.name = "gnc_sql_commit_edit", !.inst = i,
                               !.pre_dirty = inst[i].dirty,
                               !.pre_destroying = inst[i].destroying,
                               !.pre_book_dirty = book_dirty,
                               !.pre_readonly = book_readonly,
                               !.pre_loading = loading,
                               !.pre_err = last_err]
    /\ IF book_readonly
       THEN /\ last_err' = qof_backend_set_error(last_err, ERR_BACKEND_READONLY)
            /\ trace' = <<Ev("rollback", 0, "", TRUE)>>
            /\ UNCHANGED <<inst, book_dirty>>
       ELSE IF loading
       THEN /\ inst' = [inst EXCEPT ![i].dirty = FALSE]
            /\ trace' = <<>>
            /\ UNCHANGED <<last_err, book_dirty>>
       ELSE IF e_type(i) = "PriceDB"
       THEN /\ inst' = [inst EXCEPT ![i].dirty = FALSE]
            /\ book_dirty' = FALSE
            /\ trace' = <<>>
            /\ UNCHANGED last_err
       ELSE IF ~inst[i].dirty /\ ~inst[i].destroying
       THEN /\ trace' = <<>>
            /\ UNCHANGED <<inst, book_dirty, last_err>>
       ELSE IF ~begin_ok
       THEN /\ trace' = <<Ev("begin", 0, "", FALSE)>>
            /\ UNCHANGED <<inst, book_dirty, last_err>>
       ELSE LET d0 == [is_known |-> FALSE, is_ok |-> TRUE,
                       e_type |-> e_type(i),
                       trace |-> <<Ev("begin", 0, "", TRUE)>>]
                d == for_each_commit(backend_registry, 1, d0, cb_ok)
            IN  /\ UNCHANGED last_err
                /\ IF ~d.is_known
                   THEN /\ trace' = Append(d.trace, Ev("rollback", 0, "", TRUE))
                        /\ book_dirty' = FALSE
                        /\ inst' = [inst EXCEPT ![i].dirty = FALSE]
                   ELSE IF ~d.is_ok
                   THEN /\ trace' = Append(d.trace, Ev("rollback", 0, "", TRUE))
                        /\ UNCHANGED <<inst, book_dirty>>
                   ELSE /\ trace' = Append(d.trace,
                                           Ev("commit", 0, "", commit_ok))
                        /\ book_dirty' = FALSE
                        /\ inst' = [inst EXCEPT ![i].dirty = FALSE]
    /\ UNCHANGED <<backend_registry, other_load_order, be_book, loading,
                   in_query, is_pristine_db, versions, db_versions,
                   book_readonly, aborted>>
    /\ UNCHANGED <<version_table_exists, g_columnTypeHash, col_table, pObj>>
    /\ UNCHANGED <<db_tables, event_suspend, pc, query_info,
                   post_load_commodities>>

\* gnc_sql_compile_query (be, pQuery) for a query that searches for
\* searchObj; the caller keeps the wrapper returned.
compile_query_call(searchObj) ==
    /\ ~aborted
    /\ pc = "idle"
    /\ query_info.state # "compiled"
    /\ LET r == gnc_sql_compile_query(backend_registry, searchObj)
       IN  /\ query_info' = r.q
           /\ trace' = <<Ev("g_malloc", WRAPPER, "", TRUE)>> \o r.d.trace
           /\ last_op' = [NoOp EXCEPT !.name = "gnc_sql_compile_query",
                                      !.tbl = searchObj,
                                      !.pre_query = query_info,
                                      !.pre_loading = loading,
                                      !.pre_in_query = in_query]
    /\ UNCHANGED <<backend_registry, other_load_order, be_book, loading,
                   in_query, is_pristine_db, last_err, versions, db_versions,
                   book_dirty, book_readonly, inst, aborted,
                   version_table_exists, g_columnTypeHash, col_table, pObj>>
    /\ UNCHANGED <<db_tables, event_suspend, pc, post_load_commodities>>

\* gnc_sql_run_query (be, pQuery) with the wrapper of the compiled query, up
\* to the moment the bundle's run_query callback is running; when no
\* callback is invoked the call runs to its end.  The call is made by the
\* application, or by the running callback itself.
run_query_call ==
    /\ ~aborted
    /\ be_book
    /\ query_info.state = "compiled"
    /\ LET r == run_query_enter(backend_registry, query_info, in_query)
           op == [NoOp EXCEPT !.tbl = query_info.searchObj,
                              !.passed = r.d.passed,
                              !.pre_query = query_info,
                              !.pre_book_dirty = book_dirty,
                              !.pre_loading = loading,
                              !.pre_in_query = in_query]
       IN  IF ~r.entered
           THEN /\ trace' = <<>>
                /\ last_op' = [op EXCEPT !.name = "gnc_sql_run_query"]
                /\ UNCHANGED <<loading, in_query, event_suspend, pc,
                               book_dirty>>
           ELSE IF r.d.is_ok
           THEN /\ loading' = TRUE
                /\ in_query' = TRUE
                /\ event_suspend' = event_suspend + 1
                /\ pc' = "run_query"
                /\ trace' = <<Ev("qof_event_suspend", 0, "", TRUE)>>
                                \o r.d.trace
                /\ last_op' = [op EXCEPT !.name = "run_query"]
                /\ UNCHANGED book_dirty
           ELSE /\ loading' = FALSE
                /\ in_query' = FALSE
                /\ trace' = <<Ev("qof_event_suspend", 0, "", TRUE),
                              Ev("qof_event_resume", 0, "", TRUE)>>
                /\ book_dirty' = FALSE
                /\ last_op' = [op EXCEPT !.name = "gnc_sql_run_query"]
                /\ UNCHANGED <<event_suspend, pc>>
    /\ UNCHANGED <<backend_registry, other_load_order, be_book,
                   is_pristine_db, last_err, versions, db_versions,
                   book_readonly, inst, aborted,
                   version_table_exists, g_columnTypeHash, col_table, pObj>>
    /\ UNCHANGED <<db_tables, query_info, post_load_commodities>>

\* The run_query callback returns and gnc_sql_run_query runs to its end.
run_query_return ==
    /\ ~aborted
    /\ pc = "run_query"
    /\ loading' = FALSE
    /\ in_query' = FALSE
    /\ event_suspend' = event_suspend - 1
    /\ book_dirty' = FALSE
    /\ pc' = "idle"
    /\ trace' = <<Ev("qof_event_resume", 0, "", TRUE)>>
    /\ last_op' = [NoOp EXCEPT !.name = "gnc_sql_run_query",
                               !.tbl = query_info.searchObj,
                               !.pre_query = query_info,
                               !.pre_book_dirty = book_dirty,
                               !.pre_loading = loading]
    /\ UNCHANGED <<backend_registry, other_load_order, be_book,
                   is_pristine_db, last_err, versions, db_versions,
                   book_readonly, inst, aborted,
                   version_table_exists, g_columnTypeHash, col_table, pObj>>
    /\ UNCHANGED <<db_tables, query_info, post_load_commodities>>

\* gnc_sql_free_query (be, pQuery) with the wrapper of the compiled query.
free_query_call ==
    /\ ~aborted
    /\ pc = "idle"
    /\ query_info.state = "compiled"
    /\ LET r == gnc_sql_free_query(backend_registry, query_info)
       IN  /\ query_info' = r.q
           /\ trace' = r.d.trace
           /\ last_op' = [NoOp EXCEPT !.name = "gnc_sql_free_query",
                                      !.tbl = query_info.searchObj,
                                      !.passed = r.d.passed,
                                      !.pre_query = query_info,
                                      !.pre_loading = loading,
                                      !.pre_in_query = in_query]
    /\ UNCHANGED <<backend_registry, other_load_order, be_book, loading,
                   in_query, is_pristine_db, last_err, versions, db_versions,
                   book_dirty, book_readonly, inst, aborted,
                   version_table_exists, g_columnTypeHash, col_table, pObj>>
    /\ UNCHANGED <<db_tables, event_suspend, pc, post_load_commodities>>

\* A call of gnc_sql_get_table_version (be, table_name).
get_table_version_call(table_name) ==
    /\ ~aborted
    /\ trace' = <<>>
    /\ last_op' = [NoOp EXCEPT
            !.name = "gnc_sql_get_table_version", !.tbl = table_name,
            !.ret = gnc_sql_get_table_version(is_pristine_db, versions,
                                              table_name),
            !.pre_pristine = is_pristine_db]
    /\ UNCHANGED <<backend_registry, other_load_order, be_book, loading,
                   in_query, is_pristine_db, last_err, versions, db_versions,
                   book_dirty, book_readonly, inst, aborted>>
    /\ UNCHANGED <<version_table_exists, g_columnTypeHash, col_table, pObj>>
    /\ UNCHANGED <<db_tables, event_suspend, pc, query_info,
                   post_load_commodities>>

\* A call of gnc_sql_set_table_version (be, table_name, version), version > 0.
set_table_version_call(table_name, version, conn_ok) ==
    /\ ~aborted
    /\ version > 0
    /\ LET s == gnc_sql_set_table_version(CurBe, table_name, version, conn_ok)
       IN  /\ versions' = s.versions
           /\ db_versions' = s.db_versions
           /\ last_err' = s.last_err
           /\ trace' = s.trace
    /\ last_op' = [NoOp EXCEPT
            !.name = "gnc_sql_set_table_version", !.tbl = table_name,
            !.ver = version, !.ret = 1,
            !.pre_pristine = is_pristine_db,
            !.pre_has = table_name \in DOMAIN versions,
            !.pre_ver = IF table_name \in DOMAIN versions
                        THEN versions[table_name] ELSE 0]
    /\ UNCHANGED <<backend_registry, other_load_order, be_book, loading,
                   in_query, is_pristine_db, book_dirty, book_readonly, inst,
                   aborted>>
    /\ UNCHANGED <<version_table_exists, g_columnTypeHash, col_table, pObj>>
    /\ UNCHANGED <<db_tables, event_suspend, pc, query_info,
                   post_load_commodities>>

(* ------------------------- column type handlers ------------------------ *)
CT_STRING == "ct_string"
CT_GUID == "ct_guid"
CT_INT == "ct_int"
CT_INT64 == "ct_int64"
CT_TIMESPEC == "ct_timespec"
CT_GDATE == "ct_gdate"
CT_NUMERIC == "ct_numeric"
CT_DOUBLE == "ct_double"
CT_BOOLEAN == "ct_boolean"
CT_COMMODITYREF == "ct_commodityref"
CT_LOTREF == "ct_lotref"

\* What register_standard_col_type_handlers registers, tag by tag.
StandardHandlers ==
    [t \in {CT_STRING, CT_BOOLEAN, CT_INT, CT_INT64, CT_DOUBLE, CT_GUID,
            CT_TIMESPEC, CT_GDATE, CT_NUMERIC} |->
        CASE t = CT_STRING -> "string_handler"
          [] t = CT_BOOLEAN -> "boolean_handler"
          [] t = CT_INT -> "int_handler"
          [] t = CT_INT64 -> "int64_handler"
          [] t = CT_DOUBLE -> "double_handler"
          [] t = CT_GUID -> "guid_handler"
          [] t = CT_TIMESPEC -> "timespec_handler"
          [] t = CT_GDATE -> "date_handler"
          [] t = CT_NUMERIC -> "numeric_handler"]

NullHandler == "NULL"

\* A registry that keeps the handler a tag already has.
register_col_type_handler_keep_first(hash, colType, handler) ==
    IF colType \in DOMAIN hash THEN hash ELSE MapPut(hash, colType, handler)

\* g_hash_table_insert: the value of an existing key is replaced.
gnc_sql_register_col_type_handler(hash, colType, handler) ==
    IF hash = NoHash
    THEN [x \in {colType} |-> handler]
    ELSE MapPut(hash, colType, handler)

\* get_handler: with a hash table, g_assert (pHandler != NULL) on a missing
\* tag; without one, NULL is returned.
get_handler(hash, col_type) ==
    IF hash # NoHash
    THEN IF col_type \in DOMAIN hash
         THEN [pHandler |-> hash[col_type], asserted |-> FALSE]
         ELSE [pHandler |-> NullHandler, asserted |-> TRUE]
    ELSE [pHandler |-> NullHandler, asserted |-> FALSE]

\* A property value of an engine object: a kind and its numbers.
Val(k, v) == [k |-> k, v |-> v]

\* A NULL pointer, an invalid GDate: the value the handlers treat as absent.
Null == Val("null", <<>>)

\* The text of a column/value pair (fmt: how the digits are laid out), and a
\* value the connection hands back in a row (type: the GValue type).
Text(fmt, v) == [fmt |-> fmt, v |-> v]

GValue(type, fmt, v) == [type |-> type, fmt |-> fmt, v |-> v]

Pair(col_name, text) == [first |-> col_name, second |-> text]

\* A descriptor (GncSqlColumnTableEntry): column name, type tag, COL_AUTOINC.
Entry(col_name, col_type, autoinc) ==
    [col_name |-> col_name, col_type |-> col_type, autoinc |-> autoinc]

\* The column names a descriptor stands for: <<name>>, or for a numeric
\* <<name, "num">> and <<name, "denom">>.
Col(name) == <<name>>

SubCol(name, sub) == <<name, sub>>

\* operator<< of a double: six significant digits.
Round6(n) == IF n < 1000000 THEN n ELSE ((n + 5) \div 10) * 10

\* gnc_sql_get_getter and the object: an autoincrement column reads 0
\* (get_autoinc_id), any other column reads the object's property.
get_row_value_from_object(pObject, table_row) ==
    IF table_row.autoinc THEN Val("int", <<0>>) ELSE pObject[table_row.col_name]

\* add_value_to_vec_fn of each handler: the pairs it appends.
add_value_to_vec_fn(handler, pObject, table_row) ==
    LET x == get_row_value_from_object(pObject, table_row)
        c == Col(table_row.col_name)
    IN  CASE handler = "string_handler" ->
               IF x = Null THEN <<>> ELSE <<Pair(c, Text("str", x.v))>>
          [] handler \in {"int_handler", "boolean_handler", "int64_handler"} ->
               <<Pair(c, Text("int", x.v))>>
          [] handler = "double_handler" ->
               IF x = Null THEN <<>>
               ELSE <<Pair(c, Text("dbl", <<Round6(x.v[1])>>))>>
          [] handler = "guid_handler" ->
               IF x = Null THEN <<>> ELSE <<Pair(c, Text("guid", x.v))>>
          [] handler = "commodity_guid_handler" ->
               IF x = Null THEN <<>> ELSE <<Pair(c, Text("guid", x.v))>>
          [] handler = "timespec_handler" ->
               IF x.v = <<0, 0>> THEN <<>>
               ELSE <<Pair(c, Text("datetime", <<x.v[1]>>))>>
          [] handler = "date_handler" ->
               IF x = Null THEN <<>> ELSE <<Pair(c, Text("date", x.v))>>
          [] handler = "numeric_handler" ->
               <<Pair(SubCol(table_row.col_name, "num"),
                      Text("int", <<x.v[1]>>)),
                 Pair(SubCol(table_row.col_name, "denom"),
                      Text("int", <<x.v[2]>>))>>

\* get_object_values: the pairs of every descriptor that is not
\* autoincrement, in table order.  asserted: g_assert (pHandler != NULL).
RECURSIVE get_object_values(_, _, _, _)
get_object_values(hash, pObject, table, i) ==
    IF i > Len(table) THEN [vec |-> <<>>, asserted |-> FALSE]
    ELSE IF table[i].autoinc
         THEN get_object_values(hash, pObject, table, i + 1)
         ELSE LET h == get_handler(hash, table[i].col_type)
                  r == get_object_values(hash, pObject, table, i + 1)
              IN  IF h.pHandler = NullHandler
                  THEN [vec |-> <<>>, asserted |-> TRUE]
                  ELSE [vec |-> add_value_to_vec_fn(h.pHandler, pObject,
                                                    table[i]) \o r.vec,
                        asserted |-> r.asserted]

\* gnc_sql_connection_create_statement_from_sql: a handle, or NULL.
create_statement_from_sql(kind, values, stmt_ok) ==
    IF stmt_ok THEN Stmt(kind, values, <<>>) ELSE NullStmt

Built(stmt, t, dead) == [stmt |-> stmt, trace |-> t, aborted |-> dead]

\* gnc_sql_statement_add_where_cond (stmt, ...): the macro calls through
\* stmt; on a NULL handle that is undefined, and ub picks what the build
\* makes of it: the process dies, or the call goes by without effect.
add_where_cond(b, where, ub) ==
    IF b.stmt = NullStmt
    THEN Built(NullStmt, Append(b.trace, Ev("add_where_cond", 0, "NULL", FALSE)),
               ub = "crash")
    ELSE Built([b.stmt EXCEPT !.where = where],
               Append(b.trace, Ev("add_where_cond", Len(where), b.stmt.kind,
                                  TRUE)),
               FALSE)

build_insert_statement(hash, pObject, table, stmt_ok) ==
    LET values == get_object_values(hash, pObject, table, 1)
    IN  IF values.asserted
        THEN Built(NullStmt, <<Ev("g_assert", 0, "", FALSE)>>, TRUE)
        ELSE Built(create_statement_from_sql("INSERT", values.vec, stmt_ok),
                   <<Ev("create_statement", 0, "INSERT", stmt_ok)>>, FALSE)

\* values.erase (values.begin () + 1, values.end ()) keeps the first pair; on
\* an empty vector the range is invalid, which is undefined (ub as above).
build_update_statement(hash, pObject, table, stmt_ok, ub) ==
    LET values == get_object_values(hash, pObject, table, 1)
        b == Built(create_statement_from_sql("UPDATE", values.vec, stmt_ok),
                   <<Ev("create_statement", 0, "UPDATE", stmt_ok)>>, FALSE)
    IN  IF values.asserted
        THEN Built(NullStmt, <<Ev("g_assert", 0, "", FALSE)>>, TRUE)
        ELSE IF values.vec = <<>>
        THEN IF ub = "crash"
             THEN Built(b.stmt, Append(b.trace, Ev("erase", 0, "", FALSE)), TRUE)
             ELSE add_where_cond(
                      [b EXCEPT !.trace = Append(@, Ev("erase", 0, "", FALSE))],
                      <<>>, ub)
        ELSE add_where_cond(b, <<values.vec[1]>>, ub)

\* The WHERE pair is values[0] of what the handler of table[0] appends,
\* autoincrement or not; on an empty vector values[0] is undefined.
build_delete_statement(hash, pObject, table, stmt_ok, ub) ==
    LET h == get_handler(hash, table[1].col_type)
        b == Built(create_statement_from_sql("DELETE", <<>>, stmt_ok),
                   <<Ev("create_statement", 0, "DELETE", stmt_ok)>>, FALSE)
    IN  IF h.pHandler = NullHandler
        THEN Built(b.stmt, Append(b.trace, Ev("g_assert", 0, "", FALSE)), TRUE)
        ELSE LET values == add_value_to_vec_fn(h.pHandler, pObject, table[1])
             IN  IF values = <<>>
                 THEN IF ub = "crash"
                      THEN Built(b.stmt,
                                 Append(b.trace, Ev("values[0]", 0, "", FALSE)),
                                 TRUE)
                      ELSE add_where_cond(
                               [b EXCEPT !.trace =
                                   Append(@, Ev("values[0]", 0, "", FALSE))],
                               <<>>, ub)
                 ELSE add_where_cond(b, <<values[1]>>, ub)

\* gnc_sql_do_db_operation: [stmt, trace, aborted, ok, last_err].
gnc_sql_do_db_operation(hash, err, op, pObject, table, stmt_ok, exec_ok, ub) ==
    LET b == CASE op = "OP_DB_INSERT" ->
                    build_insert_statement(hash, pObject, table, stmt_ok)
               [] op = "OP_DB_UPDATE" ->
                    build_update_statement(hash, pObject, table, stmt_ok, ub)
               [] op = "OP_DB_DELETE" ->
                    build_delete_statement(hash, pObject, table, stmt_ok, ub)
    IN  IF b.aborted
        THEN [stmt |-> b.stmt, trace |-> b.trace, aborted |-> TRUE,
              ok |-> FALSE, last_err |-> err]
        ELSE IF b.stmt = NullStmt
        THEN [stmt |-> b.stmt, trace |-> b.trace, aborted |-> FALSE,
              ok |-> FALSE, last_err |-> err]
        ELSE [stmt |-> b.stmt,
              trace |-> Append(b.trace, Ev("execute", 0, b.stmt.kind, exec_ok)),
              aborted |-> FALSE,
              ok |-> exec_ok,
              last_err |-> IF exec_ok THEN err
                           ELSE qof_backend_set_error(err,
                                                      ERR_BACKEND_SERVER_ERR)]

\* The slots of the instance follow the operation when it succeeded: saved
\* unless the instance is being destroyed, deleted when it is.  r is the
\* result of gnc_sql_do_db_operation; the result has the same fields.
commit_slots(r, destroying, is_infant, slots_ok) ==
    IF r.ok
    THEN [r EXCEPT
            !.trace = Append(@, Ev(IF destroying THEN "gnc_sql_slots_delete"
                                   ELSE "gnc_sql_slots_save",
                                   IF is_infant THEN 1 ELSE 0, "", slots_ok)),
            !.ok = slots_ok]
    ELSE r

\* gnc_sql_commit_standard_item looking at pristine and infant before
\* destroying.
commit_standard_item_insert_first(hash, err, pristine, f, pObject, table, c) ==
    LET op == IF pristine \/ f.is_infant THEN "OP_DB_INSERT"
              ELSE IF f.destroying THEN "OP_DB_DELETE"
              ELSE "OP_DB_UPDATE"
        r  == gnc_sql_do_db_operation(hash, err, op, pObject, table,
                                      c.stmt_ok, c.exec_ok, c.ub)
    IN  [commit_slots(r, f.destroying, f.is_infant, c.slots_ok)
            EXCEPT !.stmt = op]

\* gnc_sql_commit_standard_item for an instance with the flags f
\* (destroying, is_infant) and the outcomes c of the collaborators: the
\* result of gnc_sql_do_db_operation with the operation chosen in the field
\* stmt.
gnc_sql_commit_standard_item(hash, err, pristine, f, pObject, table, c) ==
    LET op == IF f.destroying THEN "OP_DB_DELETE"
              ELSE IF pristine \/ f.is_infant THEN "OP_DB_INSERT"
              ELSE "OP_DB_UPDATE"
        r  == gnc_sql_do_db_operation(hash, err, op, pObject, table,
                                      c.stmt_ok, c.exec_ok, c.ub)
    IN  [commit_slots(r, f.destroying, f.is_infant, c.slots_ok)
            EXCEPT !.stmt = op]

\* do_commit_commodity: the same with force_insert among the flags.
do_commit_commodity(hash, err, pristine, f, pObject, table, c) ==
    LET op == IF f.destroying THEN "OP_DB_DELETE"
              ELSE IF pristine \/ f.is_infant \/ f.force_insert
              THEN "OP_DB_INSERT"
              ELSE "OP_DB_UPDATE"
        r  == gnc_sql_do_db_operation(hash, err, op, pObject, table,
                                      c.stmt_ok, c.exec_ok, c.ub)
    IN  [commit_slots(r, f.destroying, f.is_infant, c.slots_ok)
            EXCEPT !.stmt = op]

\* gnc_sql_row_get_value_at_col_name: the GValue of a column, NULL when the
\* row has no such column.
NullGValue == GValue("NULL", "", <<>>)

gnc_sql_row_get_value_at_col_name(row, col) ==
    IF col \in DOMAIN row THEN row[col] ELSE NullGValue

\* g_value_get_string: the text of a string GValue, NULL for any other.
g_value_get_string(val) ==
    IF val.type = "string" THEN Text(val.fmt, val.v) ELSE Text("NULL", <<>>)

\* gnc_sql_get_integer_value: an integer GValue as it is, a string through
\* g_ascii_strtoll (text that does not start with digits reads 0), 0 for
\* any other type.
gnc_sql_get_integer_value(value) ==
    CASE value.type \in {"int", "int64"} -> value.v[1]
      [] value.type = "string" /\ value.fmt \in {"int", "date", "datetime"} ->
           value.v[1]
      [] OTHER -> 0

\* A call of the property setter (or g_object_set) with a value.
SetCall(table_row, v) == [prop |-> table_row.col_name, val |-> v]

\* timespec_to_gdate of an epoch value: the day, as YYYYMMDD (January 1970).
timespec_to_gdate(t) == 19700101 + (t \div 86400)

\* The commodities of be->book, by GUID.
BookCommodities == {<<1>>}

\* What string_to_guid leaves in the GncGUID it was given when the text does
\* not parse: the variable was never initialized, so any value.
Indeterminate == {1, 9}

\* load_fn of each handler: the setter calls it makes for one descriptor.
\* indet: the value an uninitialized variable turns out to hold.
load_fn(handler, row, table_row, indet) ==
    LET val == gnc_sql_row_get_value_at_col_name(row, Col(table_row.col_name))
        s == g_value_get_string(val)
    IN  CASE handler = "string_handler" ->
               IF val = NullGValue THEN <<>>
               ELSE IF s.fmt = "NULL" THEN <<SetCall(table_row, Null)>>
               ELSE <<SetCall(table_row, Val("str", s.v))>>
          [] handler \in {"int_handler", "int64_handler"} ->
               IF val = NullGValue
               THEN <<SetCall(table_row, Val("int", <<0>>))>>
               ELSE <<SetCall(table_row,
                              Val("int", <<gnc_sql_get_integer_value(val)>>))>>
          [] handler = "boolean_handler" ->
               IF val = NullGValue
               THEN <<SetCall(table_row, Val("int", <<0>>))>>
               ELSE <<SetCall(table_row,
                              Val("int",
                                  <<IF gnc_sql_get_integer_value(val) # 0
                                    THEN 1 ELSE 0>>))>>
          [] handler = "double_handler" ->
               IF val = NullGValue THEN <<SetCall(table_row, Null)>>
               ELSE IF val.type \in {"int", "float", "double"}
               THEN <<SetCall(table_row, Val("dbl", <<val.v[1]>>))>>
               ELSE <<SetCall(table_row, Val("dbl", <<0>>))>>
          [] handler = "guid_handler" ->
               IF val = NullGValue \/ s.fmt = "NULL" THEN <<>>
               ELSE IF s.fmt = "guid"
               THEN <<SetCall(table_row, Val("guid", s.v))>>
               ELSE <<SetCall(table_row, Val("guid", <<indet>>))>>
          [] handler = "commodity_guid_handler" ->
               IF val = NullGValue THEN <<>>
               ELSE LET guid == IF val.fmt = "guid" THEN val.v ELSE <<indet>>
                    IN  IF guid \in BookCommodities
                        THEN <<SetCall(table_row, Val("guid", guid))>>
                        ELSE <<>>
          [] handler = "timespec_handler" ->
               IF val = NullGValue
               THEN <<SetCall(table_row, Val("ts", <<0, 0>>))>>
               ELSE IF val.type = "int64"
               THEN <<SetCall(table_row, Val("ts", <<val.v[1], 0>>))>>
               ELSE IF val.type = "string"
               THEN IF s.fmt = "NULL" THEN <<>>
                    ELSE IF s.fmt = "datetime"
                    THEN <<SetCall(table_row, Val("ts", <<s.v[1], 0>>))>>
                    ELSE <<SetCall(table_row, Val("ts", <<indet, 0>>))>>
               ELSE <<>>
          [] handler = "date_handler" ->
               IF val = NullGValue THEN <<>>
               ELSE IF val.type = "int64"
               THEN <<SetCall(table_row,
                              Val("date", <<timespec_to_gdate(val.v[1])>>))>>
               ELSE IF val.type = "string" /\ s.fmt = "date" /\ s.v # <<0>>
               THEN <<SetCall(table_row, Val("date", s.v))>>
               ELSE <<>>
          [] handler = "numeric_handler" ->
               LET n == gnc_sql_row_get_value_at_col_name(
                            row, SubCol(table_row.col_name, "num"))
                   d == gnc_sql_row_get_value_at_col_name(
                            row, SubCol(table_row.col_name, "denom"))
                   isNull == n = NullGValue \/ d = NullGValue
               IN  IF isNull THEN <<>>
                   ELSE <<SetCall(table_row,
                                  Val("num", <<gnc_sql_get_integer_value(n),
                                               gnc_sql_get_integer_value(d)>>))>>

\* gnc_sql_load_object: every descriptor in table order, each through the
\* handler of its type.  asserted: g_assert (pHandler != NULL).
RECURSIVE gnc_sql_load_object(_, _, _, _, _)
gnc_sql_load_object(hash, row, table, i, indet) ==
    IF i > Len(table) THEN [sets |-> <<>>, asserted |-> FALSE]
    ELSE LET h == get_handler(hash, table[i].col_type)
         IN  IF h.pHandler = NullHandler
             THEN [sets |-> <<>>, asserted |-> TRUE]
             ELSE LET r == gnc_sql_load_object(hash, row, table, i + 1, indet)
                  IN  [sets |-> load_fn(h.pHandler, row, table[i], indet)
                                    \o r.sets,
                       asserted |-> r.asserted]

\* A property nothing was ever stored in.
Unset == Val("unset", <<>>)

\* A new object of the described type.
FreshObject(table) ==
    [c \in {table[i].col_name : i \in 1..Len(table)} |-> Unset]

\* The object after the setter calls; set_autoinc_id stores nothing.
RECURSIVE ApplySets(_, _, _)
ApplySets(o, sets, table) ==
    IF sets = <<>> THEN o
    ELSE LET c == Head(sets)
             auto == \E i \in 1..Len(table) :
                        table[i].col_name = c.prop /\ table[i].autoinc
         IN  ApplySets(IF auto THEN o ELSE [o EXCEPT ![c.prop] = c.val],
                       Tail(sets), table)

\* The row a SELECT hands back for the pairs an INSERT stored: integer
\* columns come back as integers, double columns as doubles, all others
\* (string, GUID, date, datetime) as strings.
RECURSIVE RowOfPairs(_)
RowOfPairs(pairs) ==
    IF pairs = <<>> THEN EmptyMap
    ELSE LET p == Head(pairs)
             type == CASE p.second.fmt = "int" -> "int64"
                       [] p.second.fmt = "dbl" -> "double"
                       [] OTHER -> "string"
         IN  MapPut(RowOfPairs(Tail(pairs)), p.first,
                    GValue(type, p.second.fmt, p.second.v))

\* The order in which register_standard_col_type_handlers registers.
StandardOrder ==
    <<CT_STRING, CT_BOOLEAN, CT_INT, CT_INT64, CT_DOUBLE, CT_GUID,
      CT_TIMESPEC, CT_GDATE, CT_NUMERIC>>

RECURSIVE RegisterFrom(_, _)
RegisterFrom(hash, i) ==
    IF i > Len(StandardOrder) THEN hash
    ELSE RegisterFrom(
             gnc_sql_register_col_type_handler(
                 hash, StandardOrder[i], StandardHandlers[StandardOrder[i]]),
             i + 1)

\* register_standard_col_type_handlers (called from gnc_sql_init).
register_standard_col_type_handlers ==
    /\ ~aborted
    /\ g_columnTypeHash' = RegisterFrom(g_columnTypeHash, 1)
    /\ trace' = <<>>
    /\ last_op' = [NoOp EXCEPT !.name = "register_standard_col_type_handlers"]
    /\ UNCHANGED <<backend_registry, other_load_order, be_book, loading,
                   in_query, is_pristine_db, last_err, versions, db_versions,
                   book_dirty, book_readonly, inst, aborted,
                   version_table_exists, col_table, pObj>>
    /\ UNCHANGED <<db_tables, event_suspend, pc, query_info,
                   post_load_commodities>>

\* gnc_sql_register_col_type_handler (colType, handler) called by a module.
register_col_type_handler_call(colType, handler) ==
    /\ ~aborted
    /\ g_columnTypeHash' =
           gnc_sql_register_col_type_handler(g_columnTypeHash, colType, handler)
    /\ trace' = <<>>
    /\ last_op' = [NoOp EXCEPT !.name = "gnc_sql_register_col_type_handler",
                               !.tag = colType,
                               !.handler = handler,
                               !.pre_hash = g_columnTypeHash]
    /\ UNCHANGED <<backend_registry, other_load_order, be_book, loading,
                   in_query, is_pristine_db, last_err, versions, db_versions,
                   book_dirty, book_readonly, inst, aborted,
                   version_table_exists, col_table, pObj>>
    /\ UNCHANGED <<db_tables, event_suspend, pc, query_info,
                   post_load_commodities>>

\* gnc_sql_init_commodity_handler: the commodity bundle joins the registry
\* and the commodity reference handler the column types.
gnc_sql_init_commodity_handler ==
    /\ ~aborted
    /\ Len(backend_registry) < MaxRegistry
    /\ backend_registry' =
           Append(backend_registry,
                  OBEEntry("Commodity", GNC_SQL_BACKEND_VERSION,
                           CommodityCallbacks))
    /\ g_columnTypeHash' =
           gnc_sql_register_col_type_handler(g_columnTypeHash, CT_COMMODITYREF,
                                             "commodity_guid_handler")
    /\ trace' = <<>>
    /\ last_op' = [NoOp EXCEPT !.name = "gnc_sql_init_commodity_handler",
                               !.tag = CT_COMMODITYREF,
                               !.handler = "commodity_guid_handler",
                               !.pre_hash = g_columnTypeHash]
    /\ UNCHANGED <<other_load_order, be_book, loading, in_query,
                   is_pristine_db, last_err, versions, db_versions, book_dirty,
                   book_readonly, inst, aborted, version_table_exists,
                   col_table, pObj>>
    /\ UNCHANGED <<db_tables, event_suspend, pc, query_info,
                   post_load_commodities>>

\* A lookup as every caller makes it: pHandler = get_handler (table_row);
\* g_assert (pHandler != NULL);
get_handler_call(col_type) ==
    /\ ~aborted
    /\ LET r == get_handler(g_columnTypeHash, col_type)
       IN  /\ trace' = IF r.asserted
                       THEN <<Ev("g_assert", 0, "get_handler", FALSE)>>
                       ELSE IF r.pHandler = NullHandler
                       THEN <<Ev("g_assert", 0, "caller", FALSE)>>
                       ELSE <<>>
           /\ aborted' = (r.asserted \/ r.pHandler = NullHandler)
           /\ last_op' = [NoOp EXCEPT !.name = "get_handler",
                                      !.tag = col_type,
                                      !.handler = r.pHandler,
                                      !.pre_hash = g_columnTypeHash]
    /\ UNCHANGED <<backend_registry, other_load_order, be_book, loading,
                   in_query, is_pristine_db, last_err, versions, db_versions,
                   book_dirty, book_readonly, inst, version_table_exists,
                   g_columnTypeHash, col_table, pObj>>
    /\ UNCHANGED <<db_tables, event_suspend, pc, query_info,
                   post_load_commodities>>

\* gnc_sql_do_db_operation (be, op, table_name, obj_name, pObject, col_table)
\* on the described object; stmt_ok and exec_ok are what the connection
\* answers, ub what the build makes of undefined behaviour.
do_db_operation_call(op, stmt_ok, exec_ok, ub) ==
    /\ ~aborted
    /\ LET r == gnc_sql_do_db_operation(g_columnTypeHash, last_err, op,
                                        pObj, col_table, stmt_ok, exec_ok,
                                        ub)
       IN  /\ trace' = r.trace
           /\ last_err' = r.last_err
           /\ aborted' = r.aborted
           /\ last_op' = [NoOp EXCEPT !.name = "gnc_sql_do_db_operation",
                                      !.op = op,
                                      !.stmt_ok = stmt_ok,
                                      !.stmt = r.stmt,
                                      !.ret = IF r.ok THEN 1 ELSE 0,
                                      !.pre_err = last_err]
    /\ UNCHANGED <<backend_registry, other_load_order, be_book, loading,
                   in_query, is_pristine_db, versions, db_versions,
                   book_dirty, book_readonly, inst, version_table_exists,
                   g_columnTypeHash, col_table, pObj>>
    /\ UNCHANGED <<db_tables, event_suspend, pc, query_info,
                   post_load_commodities>>

\* The frame of the two item commits.
ItemCommitted(name, r, f) ==
    /\ trace' = r.trace
    /\ last_err' = r.last_err
    /\ aborted' = r.aborted
    /\ last_op' = [NoOp EXCEPT !.name = name,
                               !.op = r.stmt,
                               !.ret = IF r.ok THEN 1 ELSE 0,
                               !.pre_destroying = f.destroying,
                               !.pre_pristine = is_pristine_db,
                               !.is_infant = f.is_infant,
                               !.force_insert = f.force_insert,
                               !.pre_err = last_err]
    /\ UNCHANGED <<backend_registry, other_load_order, be_book, loading,
                   in_query, is_pristine_db, versions, db_versions,
                   book_dirty, book_readonly, inst, version_table_exists,
                   g_columnTypeHash, col_table, pObj>>
    /\ UNCHANGED <<db_tables, event_suspend, pc, query_info,
                   post_load_commodities>>

\* gnc_sql_commit_standard_item (be, inst, tableName, obj_name, col_table).
commit_standard_item_call(f, c) ==
    /\ ~aborted
    /\ ~f.force_insert
    /\ ItemCommitted("gnc_sql_commit_standard_item",
                     gnc_sql_commit_standard_item(
                         g_columnTypeHash, last_err, is_pristine_db, f, pObj,
                         col_table, c),
                     f)

\* do_commit_commodity (be, inst, force_insert): gnc_sql_save_commodity
\* forces the insertion, the commit callback does not.
do_commit_commodity_call(f, c) ==
    /\ ~aborted
    /\ ItemCommitted("do_commit_commodity",
                     do_commit_commodity(
                         g_columnTypeHash, last_err, is_pristine_db, f, pObj,
                         col_table, c),
                     f)

\* gnc_sql_load_object (be, row, obj_name, pObject, col_table) into a new
\* object of the described type.
load_object_call(row, indet) ==
    /\ ~aborted
    /\ LET r == gnc_sql_load_object(g_columnTypeHash, row, col_table, 1, indet)
       IN  /\ trace' = IF r.asserted THEN <<Ev("g_assert", 0, "", FALSE)>>
                       ELSE <<>>
           /\ aborted' = r.asserted
           /\ last_op' = [NoOp EXCEPT !.name = "gnc_sql_load_object",
                                      !.row = row,
                                      !.sets = r.sets,
                                      !.loaded = ApplySets(
                                                     FreshObject(col_table),
                                                     r.sets, col_table)]
    /\ UNCHANGED <<backend_registry, other_load_order, be_book, loading,
                   in_query, is_pristine_db, last_err, versions, db_versions,
                   book_dirty, book_readonly, inst, version_table_exists,
                   g_columnTypeHash, col_table, pObj>>
    /\ UNCHANGED <<db_tables, event_suspend, pc, query_info,
                   post_load_commodities>>

(* --------------------------- input domains ----------------------------- *)
init_version_info_call(c) ==
    /\ ~aborted
    /\ LET s == gnc_sql_init_version_info(CurBe, c)
       IN  /\ versions' = s.versions
           /\ db_versions' = s.db_versions
           /\ last_err' = s.last_err
           /\ trace' = s.trace
           /\ version_table_exists' = s.version_table_exists
    /\ last_op' = [NoOp EXCEPT !.name = "gnc_sql_init_version_info",
                               !.pre_pristine = is_pristine_db]
    /\ UNCHANGED <<backend_registry, other_load_order, be_book, loading,
                   in_query, is_pristine_db, book_dirty, book_readonly, inst,
                   aborted, g_columnTypeHash, col_table, pObj>>
    /\ UNCHANGED <<db_tables, event_suspend, pc, query_info,
                   post_load_commodities>>

create_table_call(table_name, table_version, create_ok, conn_ok) ==
    /\ ~aborted
    /\ table_version > 0
    /\ LET r == gnc_sql_create_table(CurBe, table_name, table_version,
                                     create_ok, conn_ok)
       IN  /\ versions' = r.be.versions
           /\ db_versions' = r.be.db_versions
           /\ last_err' = r.be.last_err
           /\ trace' = r.be.trace
           /\ last_op' = [NoOp EXCEPT
                   !.name = "gnc_sql_create_table", !.tbl = table_name,
                   !.ver = table_version, !.ret = IF r.ok THEN 1 ELSE 0,
                   !.pre_versions = versions,
                   !.pre_db_versions = db_versions,
                   !.pre_pristine = is_pristine_db,
                   !.pre_has = table_name \in DOMAIN versions,
                   !.pre_ver = IF table_name \in DOMAIN versions
                               THEN versions[table_name] ELSE 0]
    /\ UNCHANGED <<backend_registry, other_load_order, be_book, loading,
                   in_query, is_pristine_db, book_dirty, book_readonly, inst,
                   aborted, version_table_exists, g_columnTypeHash,
                   col_table, pObj>>
    /\ UNCHANGED <<db_tables, event_suspend, pc, query_info,
                   post_load_commodities>>

(* ------------------------------ table upgrade -------------------------- *)
\* The connection executing statements over the data tables.  c is the
\* connection's own outcome; a statement also fails when a table it names
\* is missing, or when the table it would create exists already.
MapDel(m, k) == [x \in (DOMAIN m) \ {k} |-> m[x]]

CreateStatus(db, name, c) == c /\ name \notin DOMAIN db

CopyStatus(db, from, to, c) == c /\ from \in DOMAIN db /\ to \in DOMAIN db

DropStatus(db, name, c) == c /\ name \in DOMAIN db

RenameStatus(db, from, to, c) == c /\ from \in DOMAIN db /\ to \notin DOMAIN db

\* The four statements run one after the other; every result is cast to
\* void, so each runs whatever became of the one before.
gnc_sql_upgrade_table(s, db, table_name, c) ==
    LET temp == TempName(table_name)
        ok1 == CreateStatus(db, temp, c.create)
        t1  == gnc_sql_create_temp_table(s, temp, ok1).be
        db1 == IF ok1 THEN MapPut(db, temp, {}) ELSE db
        ok2 == CopyStatus(db1, table_name, temp, c.copy)
        db2 == IF ok2 THEN MapPut(db1, temp, db1[temp] \cup db1[table_name])
               ELSE db1
        t2  == [t1 EXCEPT !.trace = Append(@, Ev("INSERT INTO SELECT", 0,
                                                 temp, ok2))]
        ok3 == DropStatus(db2, table_name, c.drop)
        db3 == IF ok3 THEN MapDel(db2, table_name) ELSE db2
        t3  == [t2 EXCEPT !.trace = Append(@, Ev("DROP TABLE", 0,
                                                 table_name, ok3))]
        ok4 == RenameStatus(db3, temp, table_name, c.rename)
        db4 == IF ok4 THEN MapDel(MapPut(db3, table_name, db3[temp]), temp)
               ELSE db3
        t4  == [t3 EXCEPT !.trace = Append(@, Ev("ALTER TABLE RENAME", 0,
                                                 temp, ok4))]
    IN  [be |-> t4, db |-> db4]

upgrade_table_call(table_name, c) ==
    /\ ~aborted
    /\ LET r == gnc_sql_upgrade_table(CurBe, db_tables, table_name, c)
       IN  /\ db_tables' = r.db
           /\ trace' = r.be.trace
           /\ last_op' = [NoOp EXCEPT
                   !.name = "gnc_sql_upgrade_table", !.tbl = table_name,
                   !.pre_tables = db_tables,
                   !.pre_versions = versions,
                   !.pre_db_versions = db_versions]
    /\ UNCHANGED <<backend_registry, other_load_order, be_book, loading,
                   in_query, is_pristine_db, last_err, versions, db_versions,
                   book_dirty, book_readonly, inst, aborted,
                   version_table_exists, g_columnTypeHash, col_table, pObj>>
    /\ UNCHANGED <<event_suspend, pc, query_info, post_load_commodities>>

\* The application adding a row to a data table (an INSERT of a saved
\* object).
insert_row_call(table_name, row) ==
    /\ ~aborted
    /\ table_name \in DOMAIN db_tables
    /\ db_tables' = MapPut(db_tables, table_name,
                           db_tables[table_name] \cup {row})
    /\ trace' = <<Ev("INSERT", row, table_name, TRUE)>>
    /\ last_op' = [NoOp EXCEPT !.name = "INSERT", !.tbl = table_name]
    /\ UNCHANGED <<backend_registry, other_load_order, be_book, loading,
                   in_query, is_pristine_db, last_err, versions, db_versions,
                   book_dirty, book_readonly, inst, aborted,
                   version_table_exists, g_columnTypeHash, col_table, pObj>>
    /\ UNCHANGED <<event_suspend, pc, query_info, post_load_commodities>>

create_temp_table_call(table_name, create_ok) ==
    /\ ~aborted
    /\ LET r == gnc_sql_create_temp_table(CurBe, table_name, create_ok)
       IN  /\ versions' = r.be.versions
           /\ db_versions' = r.be.db_versions
           /\ last_err' = r.be.last_err
           /\ trace' = r.be.trace
           /\ last_op' = [NoOp EXCEPT
                   !.name = "gnc_sql_create_temp_table", !.tbl = table_name,
                   !.ret = IF r.ok THEN 1 ELSE 0,
                   !.pre_versions = versions,
                   !.pre_db_versions = db_versions]
    /\ UNCHANGED <<backend_registry, other_load_order, be_book, loading,
                   in_query, is_pristine_db, book_dirty, book_readonly, inst,
                   aborted, version_table_exists, g_columnTypeHash,
                   col_table, pObj>>
    /\ UNCHANGED <<db_tables, event_suspend, pc, query_info,
                   post_load_commodities>>

RECURSIVE SeqsUpTo(_, _)
SeqsUpTo(S, n) ==
    IF n = 0 THEN {<<>>}
    ELSE LET shorter == SeqsUpTo(S, n - 1)
         IN  shorter \cup {Append(q, x) : q \in {r \in shorter : Len(r) = n - 1},
                                          x \in S}

\* Bundles registered in the commit and sync specifications.
Bundles ==
    {OBEEntry("Account", GNC_SQL_BACKEND_VERSION, Callbacks),
     OBEEntry("Account", GNC_SQL_BACKEND_VERSION, {}),
     OBEEntry("Account", StaleVersion, Callbacks),
     OBEEntry("Commodity", GNC_SQL_BACKEND_VERSION, CommodityCallbacks),
     OBEEntry("Budget", GNC_SQL_BACKEND_VERSION, Callbacks)}

\* Bundles and extension lists of the load specification.
LoadTypes == {"Book", "Account", "Budget", "Invoice"}

LoadBundles ==
    {OBEEntry(t, GNC_SQL_BACKEND_VERSION, Callbacks) : t \in LoadTypes}
    \cup {OBEEntry("Book", StaleVersion, Callbacks),
          OBEEntry("Budget", StaleVersion, Callbacks),
          OBEEntry("Invoice", GNC_SQL_BACKEND_VERSION, {})}

LoadOrders == SeqsUpTo({"Invoice", "Budget", "Book"}, MaxOrderLen)

LoadKinds == {"LOAD_TYPE_INITIAL_LOAD", "LOAD_TYPE_LOAD_ALL"}

FailPoints ==
    {"begin", "gnc_sql_save_book", "write_account_tree_root",
     "write_account_tree_template", "write_transactions",
     "write_template_transactions", "write_schedXactions", "commit", "none"}

AllOk == [create |-> TRUE, ins1 |-> TRUE, ins2 |-> TRUE]

ConnOutcomes == [create : BOOLEAN, ins1 : BOOLEAN, ins2 : BOOLEAN]

InitOutcomes ==
    [select : BOOLEAN, create : BOOLEAN, ins1 : BOOLEAN, ins2 : BOOLEAN]

VersionTables == {COMMODITIES_TABLE, "Gnucash"}

\* Descriptor tables: up to MaxCols descriptors, named c1, c2, ... in order.
ColNames == <<"c1", "c2", "c3", "c4">>

\* The kinds of descriptor the statement builders are given: a nullable
\* string, an int, an autoincrement int key, a GUID.
StmtKinds ==
    {<<CT_STRING, FALSE>>, <<CT_INT, FALSE>>, <<CT_INT, TRUE>>,
     <<CT_GUID, FALSE>>}

TablesOf(kinds) ==
    {[i \in 1..Len(q) |-> Entry(ColNames[i], q[i][1], q[i][2])] :
        q \in SeqsUpTo(kinds, MaxCols) \ {<<>>}}

\* The values a property of each type takes in the objects described.
ValuesOf(col_type) ==
    CASE col_type = CT_STRING -> {Null, Val("str", <<1>>)}
      [] col_type = CT_INT -> {Val("int", <<0>>), Val("int", <<7>>)}
      [] col_type = CT_BOOLEAN -> {Val("int", <<0>>), Val("int", <<1>>)}
      [] col_type = CT_INT64 -> {Val("int", <<7>>)}
      [] col_type = CT_DOUBLE -> {Null, Val("dbl", <<5>>),
                                  Val("dbl", <<1234567>>)}
      [] col_type = CT_GUID -> {Null, Val("guid", <<1>>)}
      [] col_type = CT_COMMODITYREF -> {Null, Val("guid", <<1>>)}
      [] col_type = CT_TIMESPEC -> {Val("ts", <<0, 0>>), Val("ts", <<5, 0>>),
                                    Val("ts", <<5, 3>>)}
      [] col_type = CT_GDATE -> {Null, Val("date", <<20160102>>)}
      [] col_type = CT_NUMERIC -> {Val("num", <<3, 1>>), Val("num", <<3, 4>>)}

AllValues ==
    UNION {ValuesOf(t) : t \in (DOMAIN StandardHandlers) \cup {CT_COMMODITYREF}}

\* The objects a table describes; an autoincrement key holds the id 7.
ObjectsOf(table) ==
    {o \in [{table[i].col_name : i \in 1..Len(table)} -> AllValues] :
        \A i \in 1..Len(table) :
            IF table[i].autoinc THEN o[table[i].col_name] = Val("int", <<7>>)
            ELSE o[table[i].col_name] \in ValuesOf(table[i].col_type)}

DbOps == {"OP_DB_INSERT", "OP_DB_UPDATE", "OP_DB_DELETE"}

UbOutcomes == {"crash", "go_on"}

\* Every kind of descriptor the registered handlers serve.
AllKinds ==
    {<<t, FALSE>> : t \in (DOMAIN StandardHandlers) \cup {CT_COMMODITYREF}}
    \cup {<<CT_INT, TRUE>>}

\* The row the object was saved as.
SavedRow ==
    RowOfPairs(get_object_values(g_columnTypeHash, pObj, col_table, 1).vec)

Restrict(f, S) == [x \in S |-> f[x]]

\* The rows handed to gnc_sql_load_object: the saved row, the saved row
\* without one of its columns, and the saved row with the text of one GUID
\* column replaced by text that is not a GUID.
LoadRows ==
    {SavedRow}
    \cup {Restrict(SavedRow, (DOMAIN SavedRow) \ {c}) : c \in DOMAIN SavedRow}
    \cup {[SavedRow EXCEPT ![c] = GValue("string", "junk", <<>>)] :
            c \in {x \in DOMAIN SavedRow : SavedRow[x].fmt = "guid"}}

\* The tags and handlers modules register and look up; CT_LOTREF is a tag
\* nothing here registers.
RegisteredTags == {CT_GUID, CT_COMMODITYREF}

RegisteredHandlers == {"guid_handler", "commodity_guid_handler"}

LookedUpTags == {CT_GUID, CT_COMMODITYREF, CT_LOTREF}

(* --------------------------- specifications ---------------------------- *)
\* Per-instance commit, with the load and the sync that attach the book.
NextCommit ==
    \/ \E e \in Bundles : gnc_sql_register_backend(e)
    \/ \E k \in LoadKinds : gnc_sql_load(k, FALSE)
    \/ \E f \in {"none", "begin", "commit"} : gnc_sql_sync_all(f, {}, AllOk)
    \/ \E i \in InstIds : engine_edit(i)
    \/ \E i \in InstIds : engine_destroy(i)
    \/ \E ro \in BOOLEAN : book_set_readonly(ro)
    \/ \E i \in InstIds, b, c, k \in BOOLEAN : gnc_sql_commit_edit(i, b, c, k)

SpecCommit == Init /\ [][NextCommit]_vars

\* Full sync.
NextSync ==
    \/ \E e \in Bundles : gnc_sql_register_backend(e)
    \/ \E i \in InstIds : engine_edit(i)
    \/ \E f \in FailPoints, w \in SUBSET Writers(backend_registry) :
          gnc_sql_sync_all(f, w, AllOk)

SpecSync == Init /\ [][NextSync]_vars

\* Full load.
NextLoad ==
    \/ \E e \in LoadBundles : gnc_sql_register_backend(e)
    \/ \E o \in LoadOrders : gnc_sql_set_load_order(o)
    \/ \E k \in LoadKinds, crash \in BOOLEAN : gnc_sql_load(k, crash)

SpecLoad == Init /\ [][NextLoad]_vars

\* Schema version manager.
NextVersion ==
    \/ \E t \in VersionTables : get_table_version_call(t)
    \/ \E t \in VersionTables, v \in 1..MaxVersion, ok \in BOOLEAN :
          set_table_version_call(t, v, ok)
    \/ \E f \in {"none", "begin", "commit"}, c \in ConnOutcomes :
          gnc_sql_sync_all(f, {}, c)

SpecVersion == Init /\ [][NextVersion]_vars

\* The version manager from session start: reading or creating the version
\* table, creating data tables, recording versions, resetting in a sync.
NextSchema ==
    \/ \E c \in InitOutcomes : init_version_info_call(c)
    \/ \E v \in 1..MaxVersion, cok, ok \in BOOLEAN :
          create_table_call(COMMODITIES_TABLE, v, cok, ok)
    \/ \E v \in 1..MaxVersion, ok \in BOOLEAN :
          set_table_version_call(COMMODITIES_TABLE, v, ok)
    \/ \E cok \in BOOLEAN :
          create_temp_table_call(TempName(COMMODITIES_TABLE), cok)
    \/ \E f \in {"none", "commit"}, c \in ConnOutcomes :
          gnc_sql_sync_all(f, {}, c)

SpecSchema == Init /\ [][NextSchema]_vars

\* A load that finds dirty commodities.
PostLoadBundles ==
    {OBEEntry("Commodity", GNC_SQL_BACKEND_VERSION, CommodityCallbacks),
     OBEEntry("Commodity", GNC_SQL_BACKEND_VERSION, {}),
     OBEEntry("Account", GNC_SQL_BACKEND_VERSION, Callbacks),
     OBEEntry("Budget", GNC_SQL_BACKEND_VERSION, Callbacks)}

\* Rows of the commodities table that come out dirty: each row is a
\* commodity of its own.
DirtyRows ==
    {q \in SeqsUpTo(1..MaxRows, MaxRows) :
        \A i, j \in 1..Len(q) : q[i] = q[j] => i = j}

NextPostLoad ==
    \/ \E e \in PostLoadBundles : gnc_sql_register_backend(e)
    \/ \E k \in LoadKinds, crash \in BOOLEAN, rows \in DirtyRows :
          gnc_sql_load_rows(k, crash, rows)

SpecPostLoad == Init /\ [][NextPostLoad]_vars

\* Queries and the commits made while one runs.  The registry, the load and
\* the calls that compile or free a query are the application's; a running
\* callback edits and commits instances and may ask for the query again.
QueryBundles ==
    {OBEEntry("Account", GNC_SQL_BACKEND_VERSION, Callbacks),
     OBEEntry("Account", GNC_SQL_BACKEND_VERSION, {"compile_query"}),
     OBEEntry("Account", StaleVersion, Callbacks),
     OBEEntry("Budget", GNC_SQL_BACKEND_VERSION, Callbacks)}

NextQuery ==
    \/ \E e \in QueryBundles : pc = "idle" /\ gnc_sql_register_backend(e)
    \/ pc = "idle" /\ gnc_sql_load("LOAD_TYPE_INITIAL_LOAD", FALSE)
    \/ compile_query_call("Account")
    \/ run_query_call
    \/ run_query_return
    \/ free_query_call
    \/ engine_edit("acct")
    \/ \E ro \in BOOLEAN : pc = "idle" /\ book_set_readonly(ro)
    \/ \E b, c, k \in BOOLEAN : gnc_sql_commit_edit("acct", b, c, k)

SpecQuery == Init /\ [][NextQuery]_vars

\* Upgrading a data table that holds rows.
UpgradeOutcomes == [create : BOOLEAN, copy : BOOLEAN, drop : BOOLEAN,
                    rename : BOOLEAN]

InitUpgrade ==
    /\ InitBackend
    /\ col_table = <<>>
    /\ pObj = EmptyMap
    /\ db_tables = MapPut(EmptyMap, COMMODITIES_TABLE, {})

NextUpgrade ==
    \/ \E row \in 1..MaxRows : insert_row_call(COMMODITIES_TABLE, row)
    \/ \E c \in UpgradeOutcomes : upgrade_table_call(COMMODITIES_TABLE, c)

SpecUpgrade == InitUpgrade /\ [][NextUpgrade]_vars

\* Saving one object of a described type: the statement builders.
InitStmt ==
    /\ InitBackend
    /\ col_table \in TablesOf(StmtKinds)
    /\ pObj \in ObjectsOf(col_table)
    /\ db_tables = EmptyMap

NextStmt ==
    \/ register_standard_col_type_handlers
    \/ \E op \in DbOps, stmt_ok \in BOOLEAN, exec_ok \in BOOLEAN,
          ub \in UbOutcomes :
          do_db_operation_call(op, stmt_ok, exec_ok, ub)

SpecStmt == InitStmt /\ [][NextStmt]_vars

\* Committing one item of a described type: a GUID key and string columns,
\* with the standard handlers registered.
ItemKinds == {<<CT_STRING, FALSE>>, <<CT_GUID, FALSE>>}

\* The engine's flags of the instance, and what the collaborators return.
ItemFlags == [destroying : BOOLEAN, is_infant : BOOLEAN, force_insert : BOOLEAN]

ItemOutcomes ==
    [stmt_ok : BOOLEAN, exec_ok : BOOLEAN, slots_ok : BOOLEAN, ub : UbOutcomes]

InitItem ==
    /\ InitBackend
    /\ col_table \in TablesOf(ItemKinds)
    /\ pObj \in ObjectsOf(col_table)
    /\ db_tables = EmptyMap

NextItem ==
    \/ register_standard_col_type_handlers
    \/ \E f \in {"none", "begin"} : gnc_sql_sync_all(f, {}, AllOk)
    \/ \E f \in ItemFlags, c \in ItemOutcomes : commit_standard_item_call(f, c)
    \/ \E f \in ItemFlags, c \in ItemOutcomes : do_commit_commodity_call(f, c)

SpecItem == InitItem /\ [][NextItem]_vars

\* Loading one object of a described type.  The backend is as gnc_sql_init
\* leaves it: the standard handlers and the commodity handler registered.
InitObjects ==
    /\ backend_registry =
           <<OBEEntry("Commodity", GNC_SQL_BACKEND_VERSION, CommodityCallbacks)>>
    /\ other_load_order = <<>>
    /\ be_book = FALSE
    /\ loading = FALSE
    /\ in_query = FALSE
    /\ is_pristine_db = FALSE
    /\ last_err = ERR_BACKEND_NO_ERR
    /\ versions = EmptyMap
    /\ db_versions = EmptyMap
    /\ book_dirty = FALSE
    /\ book_readonly = FALSE
    /\ inst = [i \in InstIds |-> [dirty |-> FALSE, destroying |-> FALSE]]
    /\ trace = <<>>
    /\ last_op = NoOp
    /\ aborted = FALSE
    /\ version_table_exists = FALSE
    /\ g_columnTypeHash =
           MapPut(StandardHandlers, CT_COMMODITYREF, "commodity_guid_handler")
    /\ col_table \in TablesOf(AllKinds)
    /\ pObj \in ObjectsOf(col_table)
    /\ db_tables = EmptyMap
    /\ event_suspend = 0
    /\ pc = "idle"
    /\ query_info = NoQuery
    /\ post_load_commodities = <<>>

NextObjects ==
    \E row \in LoadRows, indet \in Indeterminate : load_object_call(row, indet)

SpecObjects == InitObjects /\ [][NextObjects]_vars

\* The column-type registry.
NextColType ==
    \/ register_standard_col_type_handlers
    \/ gnc_sql_init_commodity_handler
    \/ \E colType \in RegisteredTags, handler \in RegisteredHandlers :
          register_col_type_handler_call(colType, handler)
    \/ \E col_type \in LookedUpTags : get_handler_call(col_type)

SpecColType == Init /\ [][NextColType]_vars

(* ------------------------------- claims -------------------------------- *)
IsCommitEdit == last_op.name = "gnc_sql_commit_edit"

IsSyncAll == last_op.name = "gnc_sql_sync_all"

IsInitialLoad ==
    last_op.name = "gnc_sql_load" /\ last_op.tbl = "LOAD_TYPE_INITIAL_LOAD"

BeganOk == Len(trace) >= 1 /\ trace[1].ev = "begin" /\ trace[1].ok

TypeRegistered(t) ==
    \E k \in 1..Len(backend_registry) : backend_registry[k].type_name = t

\* C1: a commit of a dirty or to-be-destroyed instance (book writable, not
\* loading, begin succeeded) whose type name matches no registered bundle
\* rolls the transaction back, never commits it, and leaves the instance and
\* the book not dirty.
C1_UnknownTypeRolledBackAndClean ==
    (/\ IsCommitEdit
     /\ last_op.pre_dirty \/ last_op.pre_destroying
     /\ ~last_op.pre_readonly
     /\ ~last_op.pre_loading
     /\ BeganOk
     /\ ~TypeRegistered(e_type(last_op.inst)))
    => /\ trace = <<Ev("begin", 0, "", TRUE), Ev("rollback", 0, "", TRUE)>>
       /\ Events("commit") = {}
       /\ ~inst[last_op.inst].dirty
       /\ ~book_dirty

C1_Witness ==
    /\ IsCommitEdit
    /\ last_op.pre_dirty
    /\ last_op.pre_book_dirty
    /\ BeganOk
    /\ Len(backend_registry) = 2
    /\ ~TypeRegistered(e_type(last_op.inst))
    /\ Events("rollback") # {}
    /\ ~inst[last_op.inst].dirty
    /\ ~book_dirty

\* C2: once the transaction has begun and the matching bundle's commit
\* callback has run, the transaction is committed and the instance and the
\* book are marked clean exactly when the callback returned TRUE; when it
\* returned FALSE the transaction is rolled back and the instance (and the
\* book) keep their dirty flags.
C2_CommitFollowsCallbackResult ==
    (IsCommitEdit /\ BeganOk /\ Events("commit_cb") # {})
    => /\ Len(trace) = 3
       /\ trace[2].ev = "commit_cb"
       /\ backend_registry[trace[2].n].type_name = e_type(last_op.inst)
       /\ IF trace[2].ok
          THEN /\ trace[3].ev = "commit"
               /\ ~inst[last_op.inst].dirty
               /\ ~book_dirty
          ELSE /\ trace[3].ev = "rollback"
               /\ inst[last_op.inst].dirty = last_op.pre_dirty
               /\ book_dirty = last_op.pre_book_dirty

C2_Witness ==
    /\ IsCommitEdit
    /\ BeganOk
    /\ Len(trace) = 3
    /\ trace[2].ev = "commit_cb"
    /\ ~trace[2].ok
    /\ trace[3].ev = "rollback"
    /\ last_op.pre_dirty
    /\ inst[last_op.inst].dirty
    /\ book_dirty

\* The calls of the last entry point to the connection's transaction
\* primitives, in order.
IsTxEvent(e) == e.ev \in {"begin", "commit", "rollback"}

TxCalls == SelectSeq(trace, IsTxEvent)

\* C3: the calls to the connection form flat brackets: every commit or
\* rollback directly follows a successful begin of the same entry point, and
\* every successful begin is directly followed by one commit or rollback
\* before the entry point returns.
C3_FlatBrackets ==
    LET T == TxCalls
    IN  \A j \in 1..Len(T) :
            /\ T[j].ev \in {"commit", "rollback"}
                  => (j > 1 /\ T[j - 1].ev = "begin" /\ T[j - 1].ok)
            /\ (T[j].ev = "begin" /\ T[j].ok)
                  => (j < Len(T) /\ T[j + 1].ev \in {"commit", "rollback"})

\* The steps of a full sync whose failure the claim names.
SyncFailed ==
    \E k \in 1..Len(trace) :
        /\ trace[k].ev \in
              {"begin", "gnc_sql_save_book", "write_account_tree_root",
               "write_account_tree_template", "write_transactions",
               "write_template_transactions", "write_schedXactions",
               "write", "commit"}
        /\ ~trace[k].ok

\* C4: in a full sync any failure (the book, either account tree, the
\* transactions, the template transactions, the scheduled transactions, a
\* bundle's write callback, the final commit) rolls the transaction back,
\* leaves a backend error set and leaves the book not marked clean; the book
\* is marked clean only when every step and the commit succeeded.
C4_SyncFailureRollsBack ==
    (IsSyncAll /\ SyncFailed)
    => /\ Events("rollback") # {}
       /\ last_err # ERR_BACKEND_NO_ERR
       /\ book_dirty = last_op.pre_book_dirty
       /\ is_pristine_db

\* The place of a call in the order the claim fixes for a full sync.
SyncRank(e) ==
    CASE e.ev \in {"create_table", "INSERT", "UPDATE"} -> 0
      [] e.ev = "create_tables" -> 1
      [] e.ev = "begin" -> 2
      [] e.ev = "gnc_sql_save_book" -> 3
      [] e.ev = "write_account_tree_root" -> 4
      [] e.ev = "write_account_tree_template" -> 5
      [] e.ev = "write_transactions" -> 6
      [] e.ev = "write_template_transactions" -> 7
      [] e.ev = "write_schedXactions" -> 8
      [] e.ev = "write" -> 9
      [] e.ev = "commit" -> 10
      [] e.ev = "rollback" -> 11
      [] OTHER -> 12

AcceptedWith(cb) ==
    {k \in 1..Len(backend_registry) :
        /\ backend_registry[k].version = GNC_SQL_BACKEND_VERSION
        /\ cb \in backend_registry[k].cbs}

\* C5: a full sync first runs create_tables of every registered bundle,
\* then, between begin and commit, writes the book, the root account tree,
\* the template account tree, the transactions, the template transactions,
\* the scheduled transactions and last the bundles' write callbacks in
\* registry order; a step is called only after every step before it has
\* been called and has succeeded.
C5_SyncOrder ==
    IsSyncAll
    => /\ \A i, j \in 1..Len(trace) :
             i < j =>
               /\ SyncRank(trace[i]) <= SyncRank(trace[j])
               /\ SyncRank(trace[i]) = SyncRank(trace[j])
                     => /\ SyncRank(trace[i]) \in {0, 1, 9}
                        /\ SyncRank(trace[i]) \in {1, 9}
                              => trace[i].n < trace[j].n
       /\ {trace[k].n : k \in Events("create_tables")}
             = AcceptedWith("create_tables")
       /\ Events("begin") # {}
       /\ \A j \in 1..Len(trace) :
             SyncRank(trace[j]) \in 3..10
                => \A r \in 2..8 :
                      r < SyncRank(trace[j])
                         => \E i \in 1..(j - 1) :
                               SyncRank(trace[i]) = r /\ trace[i].ok
       /\ (Events("write") # {} \/ Events("commit") # {})
             => {trace[k].n : k \in Events("write")} = AcceptedWith("write")

C5_Witness ==
    /\ IsSyncAll
    /\ Cardinality(Events("create_tables")) = 2
    /\ Cardinality(Events("write")) = 2
    /\ \E k \in Events("commit") : trace[k].ok
    /\ ~is_pristine_db

\* The types the two ordered loops of an initial load walk, fixed list first.
ListedOrder == fixed_load_order \o other_load_order

Listed(t) == InSeq(t, ListedOrder)

FirstPos(t) ==
    CHOOSE p \in 1..Len(ListedOrder) :
        /\ ListedOrder[p] = t
        /\ \A q \in 1..(p - 1) : ListedOrder[q] # t

LoadedType(k) == backend_registry[trace[k].n].type_name

\* A listed type whose first registered bundle is accepted and can load.
Loadable(t) ==
    LET m == find_if(backend_registry, t, 1)
    IN  /\ m # 0
        /\ backend_registry[m].version = GNC_SQL_BACKEND_VERSION
        /\ "initial_load" \in backend_registry[m].cbs

\* C6: in an initial load that returns, every type of the fixed list or the
\* extension list (that has a bundle to load) is loaded exactly once, in
\* list order with the fixed list first and before every unlisted bundle;
\* every unlisted bundle is loaded exactly once, in registry order.
C6_LoadOnceInOrder ==
    (IsInitialLoad /\ ~aborted)
    => LET L == Events("initial_load")
       IN  /\ \A p \in 1..Len(ListedOrder) :
                 Loadable(ListedOrder[p])
                    => Cardinality({k \in L :
                                      LoadedType(k) = ListedOrder[p]}) = 1
           /\ \A k1, k2 \in L :
                 (k1 < k2 /\ Listed(LoadedType(k1)) /\ Listed(LoadedType(k2)))
                    => FirstPos(LoadedType(k1)) < FirstPos(LoadedType(k2))
           /\ \A k1, k2 \in L :
                 (Listed(LoadedType(k1)) /\ ~Listed(LoadedType(k2)))
                    => k1 < k2
           /\ \A m \in AcceptedWith("initial_load") :
                 ~Listed(backend_registry[m].type_name)
                    => Cardinality({k \in L : trace[k].n = m}) = 1
           /\ \A k1, k2 \in L :
                 (k1 < k2 /\ ~Listed(LoadedType(k1)) /\ ~Listed(LoadedType(k2)))
                    => trace[k1].n < trace[k2].n

\* The calls of the last entry point that went into a bundle's callback.
CallbackCalls ==
    {k \in 1..Len(trace) :
        trace[k].ev \in {"create_tables", "initial_load", "commit_cb", "write",
                         "compile_query", "run_query", "free_query"}}

\* C7: no callback of a bundle whose version differs from
\* GNC_SQL_BACKEND_VERSION is ever invoked by a load, a sync, a commit or a
\* query.
C7_StaleBundleNeverCalled ==
    \A k \in CallbackCalls :
        backend_registry[trace[k].n].version = GNC_SQL_BACKEND_VERSION

IsGetVersion == last_op.name = "gnc_sql_get_table_version"

IsSetVersion == last_op.name = "gnc_sql_set_table_version"

\* C8: gnc_sql_get_table_version returns 0 in pristine-database mode whatever
\* the cache holds; otherwise it returns the cached version of the table, or
\* 0 when the cache has no entry for it.
C8_GetTableVersion ==
    IsGetVersion
    => IF is_pristine_db THEN last_op.ret = 0
       ELSE IF last_op.tbl \in DOMAIN versions
            THEN last_op.ret = versions[last_op.tbl]
            ELSE last_op.ret = 0

C8_Witness ==
    /\ IsGetVersion
    /\ is_pristine_db
    /\ last_op.tbl \in DOMAIN versions
    /\ versions[last_op.tbl] > 0
    /\ last_op.ret = 0

\* C9: gnc_sql_set_table_version called with the version the cache already
\* holds for the table issues no statement on the connection, in every state
\* of the backend.
C9_SameVersionNoStatement ==
    (IsSetVersion /\ last_op.pre_has /\ last_op.pre_ver = last_op.ver)
    => trace = <<>>

\* C10: gnc_sql_set_table_version called with a version other than the
\* cached one issues exactly one statement, an INSERT when the cache had no
\* entry for the table and an UPDATE when it had one, and the cache maps the
\* table to the requested version afterwards.
C10_InsertOrUpdate ==
    (IsSetVersion /\ ~(last_op.pre_has /\ last_op.pre_ver = last_op.ver))
    => /\ Len(trace) = 1
       /\ trace[1].ev = (IF last_op.pre_has THEN "UPDATE" ELSE "INSERT")
       /\ trace[1].tbl = last_op.tbl
       /\ trace[1].n = last_op.ver
       /\ last_op.tbl \in DOMAIN versions
       /\ versions[last_op.tbl] = last_op.ver

IsInitVersionInfo == last_op.name = "gnc_sql_init_version_info"

IsCreateTable == last_op.name = "gnc_sql_create_table"

\* A statement on the version table that the connection reported as failed.
VersionWriteFailed ==
    \E k \in 1..Len(trace) :
        trace[k].ev \in {"INSERT", "UPDATE"} /\ ~trace[k].ok

\* C11: after gnc_sql_init_version_info, gnc_sql_create_table,
\* gnc_sql_set_table_version or the version reset of a full sync, also when
\* a write to the version table failed, the in-memory cache and the
\* persisted version table hold the same table-to-version mapping.
C11_CacheMirrorsTable ==
    (/\ version_table_exists
     /\ IsInitVersionInfo \/ IsCreateTable \/ IsSetVersion \/ IsSyncAll)
    => versions = db_versions

\* C12: gnc_sql_set_table_version returns FALSE when its INSERT or UPDATE on
\* the version table fails, and gnc_sql_create_table then returns FALSE too.
C12_FailedWriteReturnsFalse ==
    ((IsSetVersion \/ IsCreateTable) /\ VersionWriteFailed)
    => last_op.ret = 0

IsDbOp == last_op.name = "gnc_sql_do_db_operation"

\* The connection was asked for a statement and answered NULL.
StatementFailed ==
    /\ IsDbOp
    /\ ~last_op.stmt_ok
    /\ Events("create_statement") # {}
    /\ Events("g_assert") = {}

\* C13: when the connection fails to construct the statement of an insert,
\* update or delete, the backend error flag is set, the handle is null, and
\* nothing is done through the handle: no WHERE clause is added to it and it
\* is not executed.
C13_FailedStatementFlaggedAndChecked ==
    StatementFailed
    => /\ last_err # ERR_BACKEND_NO_ERR
       /\ last_op.stmt = NullStmt
       /\ Events("execute") = {}
       /\ \A i \in Events("add_where_cond") : trace[i].ok

\* A statement of the given verb was built for the described object.
BuiltStmt(kind) == IsDbOp /\ ~aborted /\ last_op.stmt.kind = kind

\* What the handler of the first descriptor serializes for the object.
FirstDescriptorPairs ==
    add_value_to_vec_fn(get_handler(g_columnTypeHash,
                                    col_table[1].col_type).pHandler,
                        pObj, col_table[1])

\* C14: the WHERE clause of an UPDATE statement is exactly one column/value
\* pair, the one serialized from the first descriptor of the table.
C14_UpdateWhereIsFirstDescriptor ==
    BuiltStmt("UPDATE")
    => /\ Len(last_op.stmt.where) = 1
       /\ last_op.stmt.where = FirstDescriptorPairs

\* C15: the WHERE clause of a DELETE statement is the WHERE clause of the
\* UPDATE statement built for the same object and table.
C15_DeleteWhereIsUpdateWhere ==
    BuiltStmt("DELETE")
    => \A ub \in UbOutcomes :
          LET u == build_update_statement(g_columnTypeHash, pObj, col_table,
                                          TRUE, ub)
          IN  ~u.aborted => last_op.stmt.where = u.stmt.where

IsLoadObject == last_op.name = "gnc_sql_load_object"

\* The setter calls the last load made for one property.
SetsFor(c) == SelectSeq(last_op.sets, LAMBDA x : x.prop = c)

Descriptors == 1..Len(col_table)

\* The row of the last load has <name>_num but no <name>_denom.
NumWithoutDenom(i) ==
    /\ col_table[i].col_type = CT_NUMERIC
    /\ SubCol(col_table[i].col_name, "num") \in DOMAIN last_op.row
    /\ SubCol(col_table[i].col_name, "denom") \notin DOMAIN last_op.row

\* C16: loading a numeric column from a row with <name>_num but without
\* <name>_denom sets the property to the stored numerator over 1.
C16_MissingDenomIsOne ==
    IsLoadObject
    => \A i \in Descriptors :
          NumWithoutDenom(i)
          => last_op.loaded[col_table[i].col_name]
                 = Val("num",
                       <<gnc_sql_get_integer_value(
                             last_op.row[SubCol(col_table[i].col_name,
                                                "num")]), 1>>)

\* The row of the last load has no column for a timestamp or date descriptor.
AbsentTime(i) ==
    /\ col_table[i].col_type \in {CT_TIMESPEC, CT_GDATE}
    /\ Col(col_table[i].col_name) \notin DOMAIN last_op.row

\* C17: when the column is absent from the row, the timestamp handler and
\* the date handler do not call the setter and the property stays as it was.
C17_AbsentTimeLeftAlone ==
    IsLoadObject
    => \A i \in Descriptors :
          AbsentTime(i)
          => /\ SetsFor(col_table[i].col_name) = <<>>
             /\ last_op.loaded[col_table[i].col_name] = Unset

\* The row of the last load holds text that is not a GUID in a GUID column.
MalformedGuid(i) ==
    /\ col_table[i].col_type \in {CT_GUID, CT_COMMODITYREF}
    /\ Col(col_table[i].col_name) \in DOMAIN last_op.row
    /\ last_op.row[Col(col_table[i].col_name)].fmt = "junk"

\* C18: when a GUID column holds text that does not parse as a GUID, the
\* setter of that property is not called, and the other columns of the row
\* are loaded as they would be otherwise.
C18_MalformedGuidLeftUnset ==
    IsLoadObject
    => \A i \in Descriptors :
          MalformedGuid(i)
          => /\ SetsFor(col_table[i].col_name) = <<>>
             /\ ~aborted
             /\ \A j \in Descriptors \ {i} :
                   \E d \in Indeterminate :
                      SetsFor(col_table[j].col_name)
                          = load_fn(get_handler(g_columnTypeHash,
                                                col_table[j].col_type).pHandler,
                                    last_op.row, col_table[j], d)

\* C19: loading the row an object was saved as into a new object gives the
\* new object the value of every property that is not autoincrement and not
\* null.
C19_RoundTrip ==
    (IsLoadObject /\ last_op.row = SavedRow)
    => \A i \in Descriptors :
          (~col_table[i].autoinc /\ pObj[col_table[i].col_name] # Null)
          => last_op.loaded[col_table[i].col_name]
                 = pObj[col_table[i].col_name]

IsRegisterColType == last_op.name = "gnc_sql_register_col_type_handler"

IsGetHandler == last_op.name = "get_handler"

\* C20: registering a tag replaces the handler the tag had and leaves the
\* other tags alone, so a lookup returns the handler registered last under
\* the tag; a lookup of a tag that has no handler ends in a failed assertion,
\* so the caller never goes on with a null handler.
C20_RegistryReplacesLookupAsserts ==
    /\ IsRegisterColType
       => /\ get_handler(g_columnTypeHash, last_op.tag)
                 = [pHandler |-> last_op.handler, asserted |-> FALSE]
          /\ \A t \in (DOMAIN last_op.pre_hash) \ {last_op.tag} :
                 g_columnTypeHash[t] = last_op.pre_hash[t]
          /\ DOMAIN g_columnTypeHash
                 = (DOMAIN last_op.pre_hash) \cup {last_op.tag}
    /\ IsGetHandler
       => IF last_op.tag \in DOMAIN g_columnTypeHash
          THEN ~aborted /\ last_op.handler = g_columnTypeHash[last_op.tag]
          ELSE aborted /\ Events("g_assert") # {}

\* A tag that had a handler was registered again with another handler.
C20_Witness ==
    /\ IsRegisterColType
    /\ last_op.tag \in DOMAIN last_op.pre_hash
    /\ last_op.pre_hash[last_op.tag] # last_op.handler
    /\ g_columnTypeHash[last_op.tag] = last_op.handler

\* The connection's commitTransaction was called by the last entry point and
\* returned FALSE.
ConnectionCommitFailed ==
    \E k \in Events("commit") : ~trace[k].ok

\* C28: gnc_sql_commit_edit marks an instance of a registered type clean only
\* if the transaction holding its changes was committed successfully; when
\* the connection's commit fails, the instance and the book stay dirty.
C28_CleanOnlyAfterCommit ==
    (/\ IsCommitEdit
     /\ TypeRegistered(e_type(last_op.inst))
     /\ ~last_op.pre_loading
     /\ last_op.pre_dirty)
    => /\ ~inst[last_op.inst].dirty
          => \E k \in Events("commit") : trace[k].ok
       /\ ConnectionCommitFailed
          => /\ inst[last_op.inst].dirty
             /\ book_dirty = last_op.pre_book_dirty

\* C29: the backend is in pristine mode only while a full sync is running:
\* whenever gnc_sql_sync_all has returned, having succeeded or failed,
\* is_pristine_db is FALSE, so gnc_sql_get_table_version returns the cached
\* versions afterwards.
C29_PristineOnlyDuringSync ==
    /\ IsSyncAll => ~is_pristine_db
    /\ \A t \in DOMAIN versions :
          gnc_sql_get_table_version(is_pristine_db, versions, t) = versions[t]

IsCreateTempTable == last_op.name = "gnc_sql_create_temp_table"

CreateFailed ==
    \E k \in Events("create_table") : trace[k].tbl = last_op.tbl /\ ~trace[k].ok

VersionMapUntouched ==
    /\ versions = last_op.pre_versions
    /\ db_versions = last_op.pre_db_versions
    /\ Events("INSERT") = {}
    /\ Events("UPDATE") = {}

\* C25: a table gets an entry in the version map (the cache and the
\* persisted version table) only after its creation succeeded:
\* gnc_sql_create_table records no version when the connection's
\* create-table primitive fails, and gnc_sql_create_temp_table never changes
\* the version map.
C25_VersionOnlyAfterCreation ==
    /\ (IsCreateTable /\ CreateFailed)
       => VersionMapUntouched /\ last_op.ret = 0
    /\ IsCreateTempTable
       => VersionMapUntouched /\ last_op.tbl \notin DOMAIN versions

\* A creation failed for a table that had no version, while other tables
\* had one.
C25_Witness ==
    /\ IsCreateTable
    /\ CreateFailed
    /\ ~last_op.pre_has
    /\ last_op.tbl \notin DOMAIN versions
    /\ DOMAIN versions # {}

IsUpgradeTable == last_op.name = "gnc_sql_upgrade_table"

\* The table holds at least the rows the original held before the call.
HoldsOriginalRows(name) ==
    /\ name \in DOMAIN db_tables
    /\ last_op.pre_tables[last_op.tbl] \subseteq db_tables[name]

\* C26: gnc_sql_upgrade_table never loses the original rows: the original
\* table is dropped only if creating the temporary table and copying the
\* rows into it both succeeded, so after any upgrade of an existing table a
\* table holding the original rows exists under the original name or under
\* the temporary name.
C26_UpgradeKeepsRows ==
    (IsUpgradeTable /\ last_op.tbl \in DOMAIN last_op.pre_tables)
    => /\ (\E k \in Events("DROP TABLE") : trace[k].ok)
          => /\ \E k \in Events("create_table") : trace[k].ok
             /\ \E k \in Events("INSERT INTO SELECT") : trace[k].ok
       /\ \/ HoldsOriginalRows(last_op.tbl)
          \/ HoldsOriginalRows(TempName(last_op.tbl))

IsItemCommit ==
    last_op.name \in {"gnc_sql_commit_standard_item", "do_commit_commodity"}

\* The operation an item commit has to choose.
ExpectedOp ==
    IF last_op.pre_destroying THEN "OP_DB_DELETE"
    ELSE IF last_op.pre_pristine \/ last_op.is_infant \/ last_op.force_insert
    THEN "OP_DB_INSERT"
    ELSE "OP_DB_UPDATE"

SlotEvents == Events("gnc_sql_slots_save") \cup Events("gnc_sql_slots_delete")

\* C27: gnc_sql_commit_standard_item and do_commit_commodity choose exactly
\* one database operation per call: DELETE when the instance is being
\* destroyed, even if it is an infant or the backend is pristine; otherwise
\* INSERT when the backend is pristine or the instance is an infant or
\* insertion is forced; otherwise UPDATE.  The slots are saved (deleted for
\* a destroyed instance) only after that operation succeeded.
C27_OneOperationThenSlots ==
    IsItemCommit
    => /\ last_op.op = ExpectedOp
       /\ Cardinality(Events("execute")) <= 1
       /\ \A k \in Events("execute") :
             trace[k].tbl = (CASE ExpectedOp = "OP_DB_DELETE" -> "DELETE"
                               [] ExpectedOp = "OP_DB_INSERT" -> "INSERT"
                               [] OTHER -> "UPDATE")
       /\ Cardinality(SlotEvents) <= 1
       /\ \A k \in SlotEvents :
             /\ \E j \in Events("execute") : j < k /\ trace[j].ok
             /\ trace[k].ev = (IF last_op.pre_destroying
                               THEN "gnc_sql_slots_delete"
                               ELSE "gnc_sql_slots_save")
       /\ (\A j \in Events("execute") : ~trace[j].ok) => SlotEvents = {}

\* An infant instance in a pristine backend that is being destroyed was
\* deleted, and its slots were deleted after the DELETE succeeded.
C27_Witness ==
    /\ IsItemCommit
    /\ last_op.pre_destroying
    /\ last_op.pre_pristine
    /\ last_op.is_infant
    /\ \E k \in Events("execute") : trace[k].tbl = "DELETE" /\ trace[k].ok
    /\ Events("gnc_sql_slots_delete") # {}

IsRunQuery == last_op.name = "gnc_sql_run_query"

\* The run_query callback of a bundle has just been invoked.
RunQueryCallbackEntered == last_op.name = "run_query"

\* C21: gnc_sql_run_query runs every run_query callback with change
\* notifications suspended and the loading and in_query flags set; when it
\* returns the flags are cleared and every suspend has been matched by one
\* resume; a call made while in_query is already set invokes no callback and
\* changes no flag.
C21_RunQueryFlags ==
    /\ (pc = "run_query" \/ RunQueryCallbackEntered \/ Events("run_query") # {})
       => loading /\ in_query /\ event_suspend = 1
    /\ (IsRunQuery /\ ~last_op.pre_in_query)
       => ~loading /\ ~in_query /\ event_suspend = 0 /\ pc = "idle"
    /\ (IsRunQuery /\ last_op.pre_in_query)
       => /\ trace = <<>>
          /\ in_query
          /\ loading = last_op.pre_loading
          /\ event_suspend = 1
          /\ pc = "run_query"
    /\ pc = "idle" => event_suspend = 0 /\ ~in_query

\* gnc_sql_run_query returned after a callback ran: flags cleared.
C21_Witness ==
    /\ IsRunQuery
    /\ ~last_op.pre_in_query
    /\ last_op.pre_loading
    /\ Events("qof_event_resume") # {}
    /\ ~loading
    /\ ~in_query
    /\ event_suspend = 0

\* C24: while the backend's loading flag is set, gnc_sql_commit_edit commits
\* nothing: it makes no call to the connection (no begin, commit or
\* rollback), invokes no bundle callback, sets no backend error, and marks
\* the instance clean.
C24_CommitWhileLoading ==
    (IsCommitEdit /\ last_op.pre_loading)
    => /\ trace = <<>>
       /\ last_err = last_op.pre_err
       /\ ~inst[last_op.inst].dirty

\* The type a dispatching entry point looked for.
DispatchedType ==
    IF IsCommitEdit THEN e_type(last_op.inst) ELSE last_op.tbl

\* The callbacks the last entry point dispatched to bundles by type name.
DispatchCalls ==
    {k \in 1..Len(trace) :
        trace[k].ev \in {"commit_cb", "compile_query", "run_query",
                         "free_query"}}

\* C23: when several bundles are registered under one type name the first
\* matching bundle in insertion order wins: gnc_sql_commit_edit, and likewise
\* the compiling, running and freeing of a query, invokes the callback of at
\* most one bundle per call, and that bundle is the first registered one
\* whose type name matches.
C23_FirstMatchWins ==
    /\ Cardinality(DispatchCalls) <= 1
    /\ \A k \in DispatchCalls :
          trace[k].n = find_if(backend_registry, DispatchedType, 1)

IsFreeQuery == last_op.name = "gnc_sql_free_query"

\* C30: for a query compiled by gnc_sql_compile_query, gnc_sql_free_query
\* passes to the matching bundle's free_query callback the compiled-query
\* handle the bundle's compile_query returned (the handle gnc_sql_run_query
\* passes to run_query), and the wrapper allocated by gnc_sql_compile_query
\* is released exactly once, a bundle having matched or not.
C30_FreeQueryHandleAndWrapper ==
    /\ RunQueryCallbackEntered
       => last_op.passed = last_op.pre_query.pCompiledQuery
    /\ IsFreeQuery
       => /\ Events("free_query") # {}
             => last_op.passed = last_op.pre_query.pCompiledQuery
          /\ query_info.frees = 1
          /\ Cardinality({k \in Events("g_free") : trace[k].n = WRAPPER}) = 1

IsLoad == last_op.name = "gnc_sql_load"

Pushes == Events("gnc_sql_push_commodity_for_postload_processing")

\* C22: every commodity pushed with
\* gnc_sql_push_commodity_for_postload_processing during a load is committed
\* exactly once, only after every initial_load callback of that load has
\* finished and the loading flag has been cleared, and the deferred list is
\* empty when gnc_sql_load returns.
C22_PostLoadCommodities ==
    (IsLoad /\ ~aborted)
    => /\ \A p \in Pushes :
             Cardinality({k \in Events("commit_commodity") :
                             trace[k].n = trace[p].n}) = 1
       /\ \A k \in Events("commit_commodity") :
             /\ \E p \in Pushes : trace[p].n = trace[k].n
             /\ trace[k].tbl # "loading"
             /\ \A j \in Events("initial_load") \cup Pushes : j < k
       /\ post_load_commodities = <<>>
       /\ ~loading

\* A load returned in which two commodities were pushed, another bundle was
\* loaded after them, and both were committed at the end.
C22_Witness ==
    /\ IsLoad
    /\ ~aborted
    /\ Cardinality(Pushes) = 2
    /\ \E p \in Pushes, j \in Events("initial_load") : p < j
    /\ Cardinality(Events("commit_commodity")) = 2
    /\ post_load_commodities = <<>>

====
